---- MODULE Spec2Model ----
(***************************************************************************)
(* The credential checker of kroger_checker_strict_proxy.py and            *)
(* kroger_checker_final.py as a state machine: the constructor, the proxy  *)
(* rotation loop, the retry loop of _get_auth_token, check_credentials,    *)
(* check_single and check_bulk.  The network (the proxy directory, the     *)
(* health check, the login page and the login POST) is the environment:   *)
(* every request draws its outcome from the outcomes a request can have.   *)
(***************************************************************************)
EXTENDS Integers, Sequences, FiniteSets, TLC

\* Python's None, as a value of every optional field.
None == "None"

(***************************************************************************)
(* Bounds of the model.                                                    *)
(***************************************************************************)
\* Longest credential list handed to check_bulk.
MaxCreds == 2

\* The credential entries a list is drawn from (both fields differ).
Pairs ==
    { [email |-> "a@x.com", password |-> "p1"],
      [email |-> "b@x.com", password |-> "p2"] }

\* The lists check_bulk is called with.
CredLists == UNION { [1..n -> Pairs] : n \in 0..MaxCreds }

\* The proxies the directory can hand out (FreeProxy(rand=True) may hand out
\* the same one again).
Proxies == {"px1"}

\* The two files modelled by Spec; they differ in _extract_csrf and in the
\* handling of a status-200 body.
Variants == {"strict_proxy", "final"}

(***************************************************************************)
(* The environment's outcomes.                                             *)
(***************************************************************************)
\* Exception classes a call can raise: a requests.exceptions.RequestException
\* (connection, timeout, TLS), or any other Exception.
RequestException == "RequestException"
OtherException == "Exception"

\* FreeProxy(...).get(): raises, returns nothing usable, or returns a proxy.
FetchOutcomes == {"raise", None} \cup Proxies

\* The health-check GET: status 200, another status, or an exception.
TestOutcomes == {"200", "non200", "raise"}

\* The login page GET: an exception, or a page whose text holds a CSRF token
\* the file's _extract_csrf finds ("csrf") or not ("nocsrf").
PageOutcomes == {RequestException, OtherException, "csrf", "nocsrf"}

\* Status codes of the login POST.
Statuses == {200, 403, 429, 500}

\* Bodies of a status-200 login response: a JSON object with a non-empty
\* token, with an empty token, without a token; JSON that is no object;
\* text that is no JSON; no text at all.
Bodies == {"obj_token", "obj_empty_token", "obj_no_token", "non_object",
           "malformed", "empty"}

\* What response.json() raises on text that is no JSON: the standard
\* library's json.JSONDecodeError (or requests' subclass of it), requests'
\* JSONDecodeError built on simplejson (a RequestException that is no
\* json.JSONDecodeError), or simplejson's own (a ValueError).
DecodeErrors == {"json.JSONDecodeError", "requests.JSONDecodeError", "ValueError"}

\* The login POST: an exception, or a response.
PostOutcomes ==
    { [exc |-> e, status |-> 0, body |-> None] : e \in {RequestException, OtherException} }
    \cup { [exc |-> None, status |-> 200, body |-> b] : b \in Bodies }
    \cup { [exc |-> None, status |-> s, body |-> None] : s \in Statuses \ {200} }

(***************************************************************************)
(* Pure parts of the code.                                                 *)
(***************************************************************************)
\* _get_auth_token: max_retries = 2.
max_retries == 2

\* A plausible slip: the same bound for both modes.
RotateMaxRetries_Flat(strict) == 3

\* The timeout= argument of a request made for a pair, <<>> when the call
\* passes none: strict_proxy and final pass 10 to the health check and 15 to
\* the login page GET and the login POST; kroger_checker.py passes none to
\* the two requests of _check_with_api.
RequestTimeout(v, request) ==
    CASE v \in Variants /\ request = "health" -> <<10>>
      [] v \in Variants -> <<15>>
      [] OTHER -> <<>>

\* requests waits for the answer without limit when no timeout is passed.
Blocks(timeout) == timeout = <<>>

\* The outcome "the endpoint never answers and the call never returns".
Hangs(timeout) == IF Blocks(timeout) THEN {"hang"} ELSE {}

\* The jar of requests.Session keeps the cookies of every response; the
\* login page is the response that sets them.  A jar that holds cookies
\* keeps holding them.
CookiesAfterResponse(jar) == IF jar = "none" THEN "current" ELSE jar

\* _rotate_proxy assigns self.proxy and session.proxies and nothing else:
\* the jar keeps what it holds, which from now on are cookies received
\* before the latest rotation.
CookiesAfterRotation(jar) == IF jar = "none" THEN "none" ELSE "stale"

\* _rotate_proxy: max_retries = 5 if strict else 3.
RotateMaxRetries(strict) == IF strict THEN 5 ELSE 3

\* Python truthiness of a token (if token:).
Truthy(t) == t \notin {None, ""}

\* A plausible slip: no sentinel, as in kroger_checker_final.py.
ExtractCsrf_NoSentinel(variant, page) ==
    IF page = "csrf" THEN "csrf_token" ELSE None

\* _extract_csrf: strict_proxy substitutes "dummy_csrf_token" when the marker
\* is absent; final returns None when no pattern yields a long enough token.
ExtractCsrf(variant, page) ==
    IF page = "csrf" THEN "csrf_token"
    ELSE IF variant = "strict_proxy" THEN "dummy_csrf_token"
    ELSE None

\* A plausible slip: another key is read, response.json().get('access_token').
TokenOf_WrongKey(body) == None

\* The value of response.json().get('token') for a JSON object body.
TokenOf(body) ==
    CASE body = "obj_token" -> "tok"
      [] body = "obj_empty_token" -> ""
      [] OTHER -> None

\* What the status-200 branch of strict_proxy's _get_auth_token does:
\* return response.json().get('token'), with json.JSONDecodeError caught in
\* place (return None); any other exception leaves the branch.
On200Strict(body) ==
    CASE body \in {"obj_token", "obj_empty_token", "obj_no_token"} ->
            { [do |-> "return", token |-> TokenOf(body), exc |-> None] }
      [] body = "non_object" ->
            \* .get on a list, string, number or null: AttributeError
            { [do |-> "raise", token |-> None, exc |-> OtherException] }
      [] OTHER ->
            { IF e = "json.JSONDecodeError"
                THEN [do |-> "return", token |-> None, exc |-> None]
                ELSE [do |-> "raise", token |-> None,
                      exc |-> IF e = "requests.JSONDecodeError"
                                THEN RequestException ELSE OtherException]
              : e \in DecodeErrors }

\* What the status-200 branch of final's _get_auth_token does: an empty body,
\* a ValueError from json() and a non-object all fall through to return None.
On200Final(body) ==
    { [do |-> "return",
       token |-> IF body \in {"obj_token", "obj_empty_token", "obj_no_token"}
                   THEN TokenOf(body) ELSE None,
       exc |-> None] }

\* 403 and 429 are the rate-limit statuses.
IsRateLimitStatus(status) == status \in {403, 429}

\* A plausible slip: the status-200 branch does not return, and the request
\* is treated like a rate-limited one.
HandleResponse_NoReturnOn200(variant, status, body) ==
    IF status = 200 \/ IsRateLimitStatus(status)
      THEN { [do |-> "rotate", token |-> None, exc |-> None] }
      ELSE { [do |-> "return", token |-> None, exc |-> None] }

\* The if/elif on response.status_code: what _get_auth_token does with a
\* response: return a token, rotate the proxy, or raise.
HandleResponse(variant, status, body) ==
    IF status = 200
      THEN IF variant = "strict_proxy" THEN On200Strict(body) ELSE On200Final(body)
    ELSE IF IsRateLimitStatus(status)
      THEN { [do |-> "rotate", token |-> None, exc |-> None] }
    ELSE { [do |-> "return", token |-> None, exc |-> None] }

\* A plausible slip: no except Exception clause.
Handler_NoGeneric(exc) == IF exc = RequestException THEN "request" ELSE "none"

\* The except clause of _get_auth_token that catches an exception class:
\* "request" (except RequestException), "generic" (except Exception).
Handler(exc) == IF exc = RequestException THEN "request" ELSE "generic"

\* except RequestException: retry only if attempt < max_retries - 1.
RetryAfterException(attempt) == attempt < max_retries - 1

\* time.sleep(2) before the retry that follows a RequestException.
ExceptionCooldown == 2

\* The rate-limit branch rotates and continues without sleeping.
RateLimitCooldown == 0

\* A plausible slip: strict=True.
RotateStrict_Always(useProxy) == TRUE

\* strict=self.use_proxy in both rotations of _get_auth_token.
RotateStrict(useProxy) == useProxy

\* A plausible slip: if token is not None.
IsValid_NotNone(token) == token # None

\* check_credentials: True iff the token is truthy.
IsValid(token) == Truthy(token)

\* check_single: the result dictionary.
MkResult(email, password, isValid, prx) ==
    [email |-> email, password |-> password, valid |-> isValid, proxy |-> prx]

\* check_single: if is_valid: self.valid_creds.append(result)
ValidSinkAfter(sink, r) == IF r.valid THEN Append(sink, r) ELSE sink

\* A plausible slip: the append to invalid_creds is not under the else.
InvalidSinkAfter_Always(sink, r) == Append(sink, r)

\* check_single: else: self.invalid_creds.append(result)
InvalidSinkAfter(sink, r) == IF r.valid THEN sink ELSE Append(sink, r)

\* A plausible slip: results.insert(0, result).
AppendResult_Prepend(rs, r) == <<r>> \o rs

\* check_bulk: results.append(result).
AppendResult(rs, r) == Append(rs, r)

(***************************************************************************)
(* State.                                                                  *)
(***************************************************************************)
VARIABLES
    variant,        \* which file runs
    use_proxy,      \* self.use_proxy
    credentials,    \* the argument of check_bulk
    pc,             \* where the single worker is
    proxy,          \* self.proxy
    sessionProxies, \* self.session.proxies: None for {}, else the proxy
    health,         \* outcome of the last health check through sessionProxies
    rot,            \* the running _rotate_proxy call
    idx,            \* number of entries of credentials check_bulk has taken
    attempt,        \* the loop variable of _get_auth_token
    token,          \* the value _get_auth_token returns
    trail,          \* what happened in each iteration for the current pair
    results,        \* check_bulk's local list
    valid_creds,    \* self.valid_creds
    invalid_creds,  \* self.invalid_creds
    returned,       \* check_bulk's return value, None until it returns
    absorbed,       \* an except clause of _get_auth_token has caught something
    is_valid,       \* check_single's local: what check_credentials returned
    driver,         \* self.driver of kroger_checker.py: None, or how it routes
    last_rotation,  \* how the latest _rotate_proxy call ended, "none" before any
    html,           \* the argument of a call of _extract_csrf on its own
    csrf,           \* what that call returned
    cookies,        \* the cookie jar of self.session: "none", "current", "stale"
    main_pc,        \* where main() is, "none" when the checker runs without it
    choice,         \* main's menu choice
    file,           \* what opening and parsing the credentials file does
    saved,          \* the two result files, as save_results left them
    diagnostics,    \* the error lines main() has logged
    closed,         \* checker.close() has run
    in_pc,          \* where inboxmail is, "none" when it does not run
    account,        \* the email argument of inboxmail: "empty", "no_at", "ok"
    default_checks, \* the services whose flag in config.json is true
    custom_checks,  \* custom_checks.json: check name -> check_info
    cursor,         \* position of inboxmail in the checks it walks through
    imap,           \* the connection in hand: "none", "new", "auth",
                    \* "selected", "closed"
    counts,         \* inboxmail's local dict: service -> number of hits
    years,          \* inboxmail's locals discord_year and reddit_year
    searches,       \* the searches fetch_emails has sent
    posts,          \* the requests.post calls to discord_webhook
    weblog,         \* the error lines logged about the webhook
    imap_attempt,   \* connect_imap's attempt + 1, 0 when it does not run
    response,       \* connect_imap's local response: "unbound" or "NO"
    dropped         \* connections connect_imap opened and let go unclosed

vars == <<variant, use_proxy, credentials, pc, proxy, sessionProxies, health,
          rot, idx, attempt, token, trail, results, valid_creds,
          invalid_creds, returned, absorbed, is_valid, driver, last_rotation,
          html, csrf, cookies, main_pc, choice, file, saved, diagnostics,
          closed, in_pc, account, default_checks, custom_checks, cursor, imap,
          counts, years, searches, posts, weblog, imap_attempt, response,
          dropped>>

\* The frame of main().
mainVars == <<main_pc, choice, file, saved, diagnostics, closed>>

\* The frame of inboxmail.
inboxVars == <<in_pc, account, default_checks, custom_checks, cursor, imap,
               counts, years, searches, posts, weblog, imap_attempt, response,
               dropped>>

\* The locals of connect_imap and the connections it let go.
connectVars == <<imap_attempt, response, dropped>>

\* inboxmail's locals before they are assigned.
NoYears == [discord |-> None, reddit |-> None]

\* inboxmail is not running.
InboxIdle ==
    /\ in_pc = "none"
    /\ account = "ok"
    /\ default_checks = {}
    /\ custom_checks = <<>>
    /\ cursor = 0
    /\ imap = "none"
    /\ counts = <<>>
    /\ years = NoYears
    /\ searches = {}
    /\ posts = <<>>
    /\ weblog = 0
    /\ imap_attempt = 0
    /\ response = "unbound"
    /\ dropped = 0

\* The result files before save_results has run.
NoFiles == [written |-> FALSE, valid |-> <<>>, invalid |-> <<>>]

\* The checker is driven directly, not by main().
MainIdle ==
    /\ main_pc = "none"
    /\ choice = None
    /\ file = None
    /\ saved = NoFiles
    /\ diagnostics = 0
    /\ closed = FALSE

\* No _rotate_proxy call is running.
NoRot == [strict |-> FALSE, i |-> 0, result |-> "idle", ret |-> "none"]

\* One iteration of _get_auth_token's loop, as it happened on the wire; via
\* is self.session.proxies when its requests were sent.
NewAttempt(page) ==
    [page |-> page, posted |-> FALSE, exc |-> None, status |-> 0, body |-> None,
     rotated |-> "none", strict |-> FALSE, cooldown |-> 0, csrf |-> None,
     via |-> sessionProxies]

\* The trail with its last record changed.
SetLast(t, r) == [t EXCEPT ![Len(t)] = r]
LastOf(t) == t[Len(t)]

\* __init__ up to the assignment of the fields.
Init ==
    /\ variant \in Variants
    /\ use_proxy \in BOOLEAN
    /\ credentials \in CredLists
    /\ pc = "ctor"
    /\ proxy = None
    /\ sessionProxies = None
    /\ health = "none"
    /\ rot = NoRot
    /\ idx = 0
    /\ attempt = 0
    /\ token = None
    /\ trail = <<>>
    /\ results = <<>>
    /\ valid_creds = <<>>
    /\ invalid_creds = <<>>
    /\ returned = None
    /\ absorbed = FALSE
    /\ is_valid = FALSE
    /\ driver = None
    /\ last_rotation = "none"
    /\ cookies = "none"
    /\ MainIdle
    /\ InboxIdle
    /\ html = None
    /\ csrf = None

(***************************************************************************)
(* _rotate_proxy.                                                          *)
(***************************************************************************)
\* One pass of the loop body: the fetch, and the health check when a proxy
\* was fetched.
RotateOutcomes ==
    { [fetch |-> f, test |-> t] : f \in Proxies, t \in TestOutcomes }
    \cup { [fetch |-> f, test |-> None] : f \in {"raise", None} }

\* A call of _rotate_proxy(strict) whose caller continues at `ret`.
CallRotate(strict, ret) ==
    [strict |-> strict, i |-> 0, result |-> "pending", ret |-> ret]

\* After the loop: return False if strict, else clear the proxy and return True.
ExhaustedResult(strict) == IF strict THEN "fail" ELSE "ok"

\* The loop body of _rotate_proxy on the routing state `st` with outcome
\* `o`: self.proxy is assigned whatever the fetch returned (nothing when it
\* raised), the session is routed through a fetched proxy before it is
\* tested, and the health check decides.
RotateBody(st, o) ==
    LET fetched == o.fetch \in Proxies
    IN  [proxy |-> IF o.fetch = "raise" THEN st.proxy ELSE o.fetch,
         sess |-> IF fetched THEN o.fetch ELSE st.sess,
         health |-> IF fetched
                      THEN (IF o.test = "200" THEN "passed"
                            ELSE IF o.test = "raise" THEN "error"
                            ELSE "failed")
                      ELSE st.health]

\* return True inside the loop: a proxy was fetched and its test returned 200.
RotateSucceeds(o) == o.fetch \in Proxies /\ o.test = "200"

\* The code after the loop, on routing state `st` after `n` iterations.
RotateAfterLoop(strict, st, n) ==
    IF ExhaustedResult(strict) = "fail"
      THEN [proxy |-> st.proxy, sess |-> st.sess, health |-> st.health,
            result |-> "fail", tries |-> n]
      ELSE [proxy |-> None, sess |-> None, health |-> "none",
            result |-> "ok", tries |-> n]

\* A plausible slip: only the health check is inside a try.
RotateCatches_TestOnly(where) == where = "test"

\* The try blocks of the loop: the fetch is inside the outer one, the health
\* check inside the inner one, and both end in except Exception.
RotateCatches(where) == where \in {"fetch", "test"}

\* The outcome raises an exception that no except clause of the loop
\* catches (the inner try is nested in the outer one).
RotateEscapes(o) ==
    \/ o.fetch = "raise" /\ ~RotateCatches("fetch")
    \/ /\ o.fetch \in Proxies
       /\ o.test = "raise"
       /\ ~RotateCatches("test")
       /\ ~RotateCatches("fetch")

\* Every way a call of _rotate_proxy(strict) can end: `pending` are the
\* routing states with which iteration i can start, `finished` the ends
\* reached in earlier iterations.
RECURSIVE RotateLoop(_, _, _, _)
RotateLoop(strict, i, pending, finished) ==
    IF i >= RotateMaxRetries(strict) \/ pending = {}
      THEN finished \cup { RotateAfterLoop(strict, st, i) : st \in pending }
      ELSE LET runs == { [st |-> RotateBody(st, o), ok |-> RotateSucceeds(o)] :
                         st \in pending,
                         o \in { x \in RotateOutcomes : ~RotateEscapes(x) } }
               escaped == { [proxy |-> r.proxy, sess |-> r.sess,
                             health |-> r.health, result |-> "raised",
                             tries |-> i + 1] :
                            r \in { RotateBody(st, o) :
                                    st \in pending,
                                    o \in { x \in RotateOutcomes : RotateEscapes(x) } } }
           IN  RotateLoop(strict, i + 1,
                          { r.st : r \in { x \in runs : ~x.ok } },
                          finished \cup escaped \cup
                            { [proxy |-> r.st.proxy, sess |-> r.st.sess,
                               health |-> r.st.health, result |-> "ok",
                               tries |-> i + 1] : r \in { x \in runs : x.ok } })

\* A whole call of _rotate_proxy.
RotateProxy ==
    /\ pc = "rotate"
    /\ rot.result = "pending"
    /\ \E f \in RotateLoop(rot.strict, 0,
                           { [proxy |-> proxy, sess |-> sessionProxies,
                              health |-> health] }, {}) :
        /\ proxy' = f.proxy
        /\ sessionProxies' = f.sess
        /\ health' = f.health
        /\ rot' = [rot EXCEPT !.i = f.tries, !.result = f.result]
        /\ last_rotation' = f.result
        /\ pc' = IF f.result = "raised" THEN "raised" ELSE pc
    /\ cookies' = CookiesAfterRotation(cookies)
    /\ UNCHANGED <<variant, use_proxy, credentials, idx, attempt, token,
                   trail, results, valid_creds, invalid_creds, returned,
                   absorbed, is_valid, driver, html, csrf, mainVars,
                   inboxVars>>

(***************************************************************************)
(* __init__: if self.use_proxy: self._rotate_proxy(strict=True).           *)
(***************************************************************************)
Construct ==
    /\ pc = "ctor"
    /\ IF use_proxy
         THEN pc' = "rotate" /\ rot' = CallRotate(TRUE, "ctor")
         ELSE pc' = "bulk" /\ rot' = rot
    /\ UNCHANGED <<variant, use_proxy, credentials, proxy, sessionProxies,
                   health, idx, attempt, token, trail, results, valid_creds,
                   invalid_creds, returned,
                   absorbed, is_valid, driver,
                   last_rotation, html, csrf,
                   cookies, mainVars,
                   inboxVars>>

\* The constructor ignores the result of its rotation.
ConstructResume ==
    /\ pc = "rotate"
    /\ rot.ret = "ctor"
    /\ rot.result # "pending"
    /\ pc' = "bulk"
    /\ rot' = NoRot
    /\ UNCHANGED <<variant, use_proxy, credentials, proxy, sessionProxies,
                   health, idx, attempt, token, trail, results, valid_creds,
                   invalid_creds, returned,
                   absorbed, is_valid, driver,
                   last_rotation, html, csrf,
                   cookies, mainVars,
                   inboxVars>>

(***************************************************************************)
(* check_bulk, check_single, check_credentials.                            *)
(***************************************************************************)
\* A plausible slip: range(max_retries + 1).
LoopHead_OffByOne(a) == IF a <= max_retries THEN "get" ELSE "finish"

\* The head of _get_auth_token's loop: another iteration, or the end of the
\* function, which returns None.
LoopHead(a) == IF a < max_retries THEN "get" ELSE "finish"

\* for cred in credentials: the next entry; check_single calls
\* check_credentials, which calls _get_auth_token.
BulkTake ==
    /\ pc = "bulk"
    /\ idx < Len(credentials)
    /\ idx' = idx + 1
    /\ attempt' = 0
    /\ token' = None
    /\ trail' = <<>>
    /\ pc' = LoopHead(0)
    /\ UNCHANGED <<variant, use_proxy, credentials, proxy, sessionProxies,
                   health, rot, results, valid_creds, invalid_creds, returned,
                   absorbed, is_valid, driver,
                   last_rotation, html, csrf,
                   cookies, mainVars,
                   inboxVars>>

\* return results
BulkReturn ==
    /\ pc = "bulk"
    /\ idx >= Len(credentials)
    /\ returned' = results
    /\ pc' = "returned"
    /\ UNCHANGED <<variant, use_proxy, credentials, proxy, sessionProxies,
                   health, rot, idx, attempt, token, trail, results,
                   valid_creds, invalid_creds,
                   absorbed, is_valid, driver,
                   last_rotation, html, csrf,
                   cookies, mainVars,
                   inboxVars>>

\* An exception raised inside the try of _get_auth_token, with `t` the trail
\* so far: the except clause that catches it decides.
Raise(exc, t) ==
    IF Handler(exc) = "request"
      THEN IF RetryAfterException(attempt)
             THEN /\ pc' = "rotate"
                  /\ rot' = CallRotate(RotateStrict(use_proxy), "exc")
                  /\ token' = token
                  /\ absorbed' = TRUE
                  /\ trail' = SetLast(t, [LastOf(t) EXCEPT
                                            !.rotated = "pending",
                                            !.strict = RotateStrict(use_proxy)])
             ELSE /\ pc' = "finish"
                  /\ rot' = rot
                  /\ token' = None
                  /\ absorbed' = TRUE
                  /\ trail' = t
    ELSE IF Handler(exc) = "generic"
      THEN /\ pc' = "finish"
           /\ rot' = rot
           /\ token' = None
           /\ absorbed' = TRUE
           /\ trail' = t
    ELSE \* no clause catches it: it leaves check_bulk
           /\ pc' = "raised"
           /\ rot' = rot
           /\ token' = token
           /\ absorbed' = absorbed
           /\ trail' = t

\* self.session.get('https://www.kroger.com/signin') and _extract_csrf.
GetLoginPage ==
    /\ pc = "get"
    /\ \E page \in PageOutcomes \cup Hangs(RequestTimeout(variant, "page")) :
        LET t1 == Append(trail, NewAttempt(page))
        IN  IF page = "hang"
              THEN \* the request never returns
                   /\ pc' = "blocked"
                   /\ token' = token
                   /\ trail' = t1
                   /\ UNCHANGED <<rot, absorbed>>
            ELSE IF page \in {RequestException, OtherException}
              THEN Raise(page, t1)
            ELSE IF ExtractCsrf(variant, page) = None
              THEN \* final: return None without a POST
                   /\ pc' = "finish"
                   /\ token' = None
                   /\ trail' = t1
                   /\ UNCHANGED <<rot, absorbed>>
            ELSE \* the payload of the POST carries the token
                 /\ pc' = "post"
                 /\ token' = token
                 /\ trail' = SetLast(t1, [LastOf(t1) EXCEPT
                                           !.csrf = ExtractCsrf(variant, page)])
                 /\ UNCHANGED <<rot, absorbed>>
    /\ cookies' = IF LastOf(trail').page \in {"csrf", "nocsrf"}
                    THEN CookiesAfterResponse(cookies)
                    ELSE cookies
    /\ UNCHANGED <<variant, use_proxy, credentials, proxy, sessionProxies,
                   health, idx, attempt, results, valid_creds, invalid_creds,
                   returned, is_valid, driver,
                   last_rotation, html, csrf, mainVars,
                   inboxVars>>

\* self.session.post('https://www.kroger.com/auth/api/login') and the
\* handling of its response.
PostLogin ==
    /\ pc = "post"
    /\ \E out \in PostOutcomes \cup
                  { [exc |-> h, status |-> 0, body |-> None] :
                    h \in Hangs(RequestTimeout(variant, "post")) } :
        LET rec == [LastOf(trail) EXCEPT !.posted = TRUE, !.exc = out.exc,
                                         !.status = out.status, !.body = out.body]
            t1 == SetLast(trail, rec)
        IN  IF out.exc = "hang"
              THEN \* the request never returns
                   /\ pc' = "blocked"
                   /\ token' = token
                   /\ trail' = t1
                   /\ UNCHANGED <<rot, absorbed>>
            ELSE IF out.exc # None
              THEN Raise(out.exc, t1)
              ELSE \E act \in HandleResponse(variant, out.status, out.body) :
                    CASE act.do = "return" ->
                            /\ pc' = "finish"
                            /\ token' = act.token
                            /\ trail' = t1
                            /\ UNCHANGED <<rot, absorbed>>
                      [] act.do = "rotate" ->
                            /\ pc' = "rotate"
                            /\ rot' = CallRotate(RotateStrict(use_proxy), "ratelimit")
                            /\ token' = token
                            /\ absorbed' = absorbed
                            /\ trail' = SetLast(t1, [rec EXCEPT
                                            !.rotated = "pending",
                                            !.strict = RotateStrict(use_proxy)])
                      [] OTHER -> Raise(act.exc, t1)
    /\ UNCHANGED <<variant, use_proxy, credentials, proxy, sessionProxies,
                   health, idx, attempt, results, valid_creds, invalid_creds,
                   returned, is_valid, driver,
                   last_rotation, html, csrf,
                   cookies, mainVars,
                   inboxVars>>

\* A plausible slip: the result of _rotate_proxy is ignored.
AbortOnRotateFailure_Never(result) == FALSE

\* if not self._rotate_proxy(strict=self.use_proxy): return None
AbortOnRotateFailure(result) == result # "ok"

\* After _rotate_proxy in the 403/429 branch: return None if it failed, else
\* continue (the end of the loop returns None).
RateLimitResume ==
    /\ pc = "rotate"
    /\ rot.ret = "ratelimit"
    /\ rot.result # "pending"
    /\ IF AbortOnRotateFailure(rot.result)
         THEN /\ attempt' = attempt
              /\ pc' = "finish"
              /\ trail' = SetLast(trail, [LastOf(trail) EXCEPT
                                            !.rotated = rot.result])
         ELSE /\ attempt' = attempt + 1
              /\ pc' = LoopHead(attempt + 1)
              /\ trail' = SetLast(trail, [LastOf(trail) EXCEPT
                                            !.rotated = rot.result,
                                            !.cooldown = RateLimitCooldown])
    /\ token' = None
    /\ rot' = NoRot
    /\ UNCHANGED <<variant, use_proxy, credentials, proxy, sessionProxies,
                   health, idx, results, valid_creds, invalid_creds, returned,
                   absorbed, is_valid, driver,
                   last_rotation, html, csrf,
                   cookies, mainVars,
                   inboxVars>>

\* After _rotate_proxy in except RequestException: return None if it failed,
\* else time.sleep(2) and continue.
ExceptionResume ==
    /\ pc = "rotate"
    /\ rot.ret = "exc"
    /\ rot.result # "pending"
    /\ IF AbortOnRotateFailure(rot.result)
         THEN /\ attempt' = attempt
              /\ pc' = "finish"
              /\ trail' = SetLast(trail, [LastOf(trail) EXCEPT
                                            !.rotated = rot.result])
         ELSE /\ attempt' = attempt + 1
              /\ pc' = LoopHead(attempt + 1)
              /\ trail' = SetLast(trail, [LastOf(trail) EXCEPT
                                            !.rotated = rot.result,
                                            !.cooldown = ExceptionCooldown])
    /\ token' = None
    /\ rot' = NoRot
    /\ UNCHANGED <<variant, use_proxy, credentials, proxy, sessionProxies,
                   health, idx, results, valid_creds, invalid_creds, returned,
                   absorbed, is_valid, driver,
                   last_rotation, html, csrf,
                   cookies, mainVars,
                   inboxVars>>

\* check_credentials turns the token into a flag, check_single builds the
\* result and files it, check_bulk appends it.
FinishPair ==
    /\ pc = "finish"
    /\ is_valid' = IsValid(token)
    /\ LET cred == credentials[idx]
           r == MkResult(cred.email, cred.password, is_valid', proxy)
       IN  /\ valid_creds' = ValidSinkAfter(valid_creds, r)
           /\ invalid_creds' = InvalidSinkAfter(invalid_creds, r)
           /\ results' = AppendResult(results, r)
    /\ pc' = "pace"
    /\ UNCHANGED <<variant, use_proxy, credentials, proxy, sessionProxies,
                   health, rot, idx, attempt, token, trail, returned,
                   absorbed, driver,
                   last_rotation, html, csrf,
                   cookies, mainVars,
                   inboxVars>>

\* if self.use_proxy and random.random() > 0.7: self._rotate_proxy(strict=True)
\* The locals of the finished check_single are gone by now, and its trail
\* with them.
PaceRotate ==
    /\ pc = "pace"
    /\ use_proxy
    /\ pc' = "rotate"
    /\ rot' = CallRotate(TRUE, "pace")
    /\ attempt' = 0
    /\ token' = None
    /\ trail' = <<>>
    /\ UNCHANGED <<variant, use_proxy, credentials, proxy, sessionProxies,
                   health, idx, results, valid_creds, invalid_creds, returned,
                   absorbed, is_valid, driver,
                   last_rotation, html, csrf,
                   cookies, mainVars,
                   inboxVars>>

\* No forced rotation; time.sleep(random.uniform(1, 3)).
PaceSleep ==
    /\ pc = "pace"
    /\ pc' = "bulk"
    /\ attempt' = 0
    /\ token' = None
    /\ trail' = <<>>
    /\ UNCHANGED <<variant, use_proxy, credentials, proxy, sessionProxies,
                   health, rot, idx, results, valid_creds, invalid_creds,
                   returned,
                   absorbed, is_valid, driver,
                   last_rotation, html, csrf,
                   cookies, mainVars,
                   inboxVars>>

\* The forced rotation's result is ignored; time.sleep(random.uniform(1, 3)).
PaceResume ==
    /\ pc = "rotate"
    /\ rot.ret = "pace"
    /\ rot.result # "pending"
    /\ pc' = "bulk"
    /\ rot' = NoRot
    /\ UNCHANGED <<variant, use_proxy, credentials, proxy, sessionProxies,
                   health, idx, attempt, token, trail, results, valid_creds,
                   invalid_creds, returned,
                   absorbed, is_valid, driver,
                   last_rotation, html, csrf,
                   cookies, mainVars,
                   inboxVars>>

Next ==
    \/ Construct
    \/ ConstructResume
    \/ RotateProxy
    \/ BulkTake
    \/ BulkReturn
    \/ GetLoginPage
    \/ PostLogin
    \/ RateLimitResume
    \/ ExceptionResume
    \/ FinishPair
    \/ PaceRotate
    \/ PaceSleep
    \/ PaceResume

Spec == Init /\ [][Next]_vars

(***************************************************************************)
(* kroger_checker.py: the checker with two strategies, the API request     *)
(* first and the browser as fallback.  It uses the same fields; its        *)
(* _rotate_proxy is a single fetch without a health check, and a trail     *)
(* record is one call of a strategy.                                       *)
(***************************************************************************)
\* _rotate_proxy of kroger_checker.py on routing state `st` when the fetch
\* ends with `f`: the proxy and the session's routing are assigned, or the
\* except clause sets self.proxy to None and leaves the session as it is.
DualRotate(st, f) ==
    IF f = "raise"
      THEN [proxy |-> None, sess |-> st.sess]
      ELSE [proxy |-> f, sess |-> f]

\* How that call ended: it leaves a proxy in self.proxy, or none (the fetch
\* raised or returned nothing).
DualRotateResult(f) == IF f \in Proxies THEN "ok" ELSE "fail"

\* What _check_with_api can meet: the login page GET raises, returns another
\* status than 200, or returns 200 and the login POST raises or is answered.
DualApiOutcomes ==
    { [strategy |-> "api", page |-> pg, posted |-> FALSE, exc |-> None,
       status |-> 0, body |-> None, browser |-> None] : pg \in {"raise", "non200"} }
    \cup { [strategy |-> "api", page |-> "200", posted |-> TRUE,
            exc |-> OtherException, status |-> 0, body |-> None, browser |-> None] }
    \cup { [strategy |-> "api", page |-> "200", posted |-> TRUE, exc |-> None,
            status |-> 200, body |-> b, browser |-> None] :
           b \in {"obj_token", "obj_no_token"} }
    \cup { [strategy |-> "api", page |-> "200", posted |-> TRUE, exc |-> None,
            status |-> st, body |-> None, browser |-> None] : st \in Statuses \ {200} }
    \cup { [strategy |-> "api", page |-> h, posted |-> FALSE, exc |-> None,
            status |-> 0, body |-> None, browser |-> None] :
           h \in Hangs(RequestTimeout("dual", "page")) }
    \cup { [strategy |-> "api", page |-> "200", posted |-> TRUE, exc |-> h,
            status |-> 0, body |-> None, browser |-> None] :
           h \in Hangs(RequestTimeout("dual", "post")) }

\* _check_with_api: True iff the login page came with status 200 and the
\* login POST was answered with status 200.
ApiValid(o) == o.page = "200" /\ o.posted /\ o.exc = None /\ o.status = 200

\* What _check_with_selenium can meet once it has a browser: the URL comes
\* to contain 'account', the wait times out with or without an error
\* element, or a step raises.
BrowserOutcomes == {"accepted", "error_element", "timeout", "exception"}

\* _check_with_selenium: True iff the URL came to contain 'account'.
SeleniumValid(b) == b = "accepted"

\* __init__ of kroger_checker.py up to the assignment of the fields.
InitDual ==
    /\ variant = "dual"
    /\ use_proxy \in BOOLEAN
    /\ credentials \in CredLists
    /\ pc = "d_ctor"
    /\ proxy = None
    /\ sessionProxies = None
    /\ health = "none"
    /\ rot = NoRot
    /\ idx = 0
    /\ attempt = 0
    /\ token = None
    /\ trail = <<>>
    /\ results = <<>>
    /\ valid_creds = <<>>
    /\ invalid_creds = <<>>
    /\ returned = None
    /\ absorbed = FALSE
    /\ is_valid = FALSE
    /\ driver = None
    /\ last_rotation = "none"
    /\ cookies = "none"
    /\ MainIdle
    /\ InboxIdle
    /\ html = None
    /\ csrf = None

\* if self.use_proxy: self._rotate_proxy()
DualConstruct ==
    /\ pc = "d_ctor"
    /\ IF use_proxy
         THEN \E f \in FetchOutcomes :
                LET st == DualRotate([proxy |-> proxy, sess |-> sessionProxies], f)
                IN  /\ proxy' = st.proxy
                    /\ sessionProxies' = st.sess
                    /\ last_rotation' = DualRotateResult(f)
         ELSE UNCHANGED <<proxy, sessionProxies, last_rotation>>
    /\ pc' = "d_bulk"
    /\ UNCHANGED <<variant, use_proxy, credentials, health, rot, idx, attempt,
                   token, trail, results, valid_creds, invalid_creds, returned,
                   absorbed, is_valid, driver, html, csrf,
                   cookies, mainVars,
                   inboxVars>>

\* for cred in credentials: check_single calls check_credentials.
DualBulkTake ==
    /\ pc = "d_bulk"
    /\ idx < Len(credentials)
    /\ idx' = idx + 1
    /\ trail' = <<>>
    /\ pc' = "d_api"
    /\ UNCHANGED <<variant, use_proxy, credentials, proxy, sessionProxies,
                   health, rot, attempt, token, results, valid_creds,
                   invalid_creds, returned, absorbed, is_valid, driver,
                   last_rotation, html, csrf,
                   cookies, mainVars,
                   inboxVars>>

\* return results
DualBulkReturn ==
    /\ pc = "d_bulk"
    /\ idx >= Len(credentials)
    /\ returned' = results
    /\ pc' = "returned"
    /\ UNCHANGED <<variant, use_proxy, credentials, proxy, sessionProxies,
                   health, rot, idx, attempt, token, trail, results,
                   valid_creds, invalid_creds, absorbed, is_valid, driver,
                   last_rotation, html, csrf,
                   cookies, mainVars,
                   inboxVars>>

\* check_credentials: api_valid = self._check_with_api(...); return True if
\* it is, else fall back to the browser.
DualCheckApi ==
    /\ pc = "d_api"
    /\ \E o \in DualApiOutcomes :
        /\ trail' = Append(trail, o)
        /\ IF o.page = "hang" \/ o.exc = "hang"
             THEN \* the request never returns
                  is_valid' = is_valid /\ pc' = "d_blocked"
           ELSE IF ApiValid(o)
             THEN is_valid' = TRUE /\ pc' = "d_finish"
             ELSE is_valid' = is_valid /\ pc' = "d_selenium"
    /\ UNCHANGED <<variant, use_proxy, credentials, proxy, sessionProxies,
                   health, rot, idx, attempt, token, results, valid_creds,
                   invalid_creds, returned, absorbed, driver,
                   last_rotation, html, csrf,
                   cookies, mainVars,
                   inboxVars>>

\* check_credentials: selenium_valid = self._check_with_selenium(...), which
\* starts the browser if there is none (through self.proxy if use_proxy and
\* a proxy is set) and catches every exception.
DualCheckSelenium ==
    /\ pc = "d_selenium"
    /\ \/ \* _init_selenium raises
          /\ driver = None
          /\ driver' = None
          /\ is_valid' = FALSE
          /\ trail' = Append(trail,
                 [strategy |-> "selenium", page |-> None, posted |-> FALSE,
                  exc |-> None, status |-> 0, body |-> None,
                  browser |-> "init_failed"])
       \/ \E b \in BrowserOutcomes :
          /\ driver' = IF driver # None THEN driver
                       ELSE IF use_proxy /\ proxy # None THEN proxy
                       ELSE "direct"
          /\ is_valid' = SeleniumValid(b)
          /\ trail' = Append(trail,
                 [strategy |-> "selenium", page |-> None, posted |-> FALSE,
                  exc |-> None, status |-> 0, body |-> None, browser |-> b])
    /\ pc' = "d_finish"
    /\ UNCHANGED <<variant, use_proxy, credentials, proxy, sessionProxies,
                   health, rot, idx, attempt, token, results, valid_creds,
                   invalid_creds, returned, absorbed,
                   last_rotation, html, csrf,
                   cookies, mainVars,
                   inboxVars>>

\* check_single builds the result and files it, check_bulk appends it.
DualFinish ==
    /\ pc = "d_finish"
    /\ LET cred == credentials[idx]
           r == MkResult(cred.email, cred.password, is_valid, proxy)
       IN  /\ valid_creds' = ValidSinkAfter(valid_creds, r)
           /\ invalid_creds' = InvalidSinkAfter(invalid_creds, r)
           /\ results' = AppendResult(results, r)
    /\ pc' = "d_pace"
    /\ UNCHANGED <<variant, use_proxy, credentials, proxy, sessionProxies,
                   health, rot, idx, attempt, token, trail, returned,
                   absorbed, is_valid, driver,
                   last_rotation, html, csrf,
                   cookies, mainVars,
                   inboxVars>>

\* if self.use_proxy and random.random() > 0.7: self._rotate_proxy(); then
\* time.sleep(random.uniform(1, 3)).
DualPaceRotate ==
    /\ pc = "d_pace"
    /\ use_proxy
    /\ \E f \in FetchOutcomes :
        LET st == DualRotate([proxy |-> proxy, sess |-> sessionProxies], f)
        IN  /\ proxy' = st.proxy
            /\ sessionProxies' = st.sess
            /\ last_rotation' = DualRotateResult(f)
    /\ trail' = <<>>
    /\ pc' = "d_bulk"
    /\ UNCHANGED <<variant, use_proxy, credentials, health, rot, idx, attempt,
                   token, results, valid_creds, invalid_creds, returned,
                   absorbed, is_valid, driver, html, csrf,
                   cookies, mainVars,
                   inboxVars>>

\* No forced rotation; time.sleep(random.uniform(1, 3)).
DualPaceSleep ==
    /\ pc = "d_pace"
    /\ trail' = <<>>
    /\ pc' = "d_bulk"
    /\ UNCHANGED <<variant, use_proxy, credentials, proxy, sessionProxies,
                   health, rot, idx, attempt, token, results, valid_creds,
                   invalid_creds, returned, absorbed, is_valid, driver,
                   last_rotation, html, csrf,
                   cookies, mainVars,
                   inboxVars>>

NextDual ==
    \/ DualConstruct
    \/ DualBulkTake
    \/ DualBulkReturn
    \/ DualCheckApi
    \/ DualCheckSelenium
    \/ DualFinish
    \/ DualPaceRotate
    \/ DualPaceSleep

SpecDual == InitDual /\ [][NextDual]_vars

(***************************************************************************)
(* _extract_csrf on its own.  A page is the sequence of the fragments of   *)
(* its text that one of the patterns can touch, in document order.         *)
(***************************************************************************)
\* Longest page, in fragments.
MaxFragments == 3

\* Captured values: 10, 11 and 16 characters long.
CsrfValues == {"0123456789", "0123456789a", "abcdef0123456789"}

\* The fragments:
\*   meta     <meta name="csrf-token" content="v">
\*   state    window.__PRELOADED_STATE__ = {
\*   json     "csrfToken":"v"
\*   json_sp  "csrfToken" : "v"
\*   input    <input type="hidden" name="_csrf" value="v">
\*   payload  "_csrf":"v"
\*   text     anything else
Fragments ==
    { [form |-> f, val |-> v] :
        f \in {"meta", "json", "json_sp", "input", "payload"}, v \in CsrfValues }
    \cup { [form |-> f, val |-> None] : f \in {"state", "text"} }

Pages == UNION { [1..n -> Fragments] : n \in 0..MaxFragments }

\* The least element of a non-empty set of positions.
Leftmost(S) == CHOOSE i \in S : \A j \in S : i <= j

\* The patterns of kroger_checker_final.py, in the order of the list.
Patterns == <<"meta", "state", "input", "json">>

\* Where the capture group of re.search(pattern, html, re.DOTALL) can sit:
\* the meta tag; the first "csrfToken":"v" after the leftmost state
\* assignment (.*? is lazy and crosses lines); the hidden input; any
\* "csrfToken" key, with or without blanks around the colon.
CaptureSites(pattern, h) ==
    CASE pattern = "meta" -> { i \in 1..Len(h) : h[i].form = "meta" }
      [] pattern = "state" ->
            LET opens == { i \in 1..Len(h) : h[i].form = "state" }
            IN  IF opens = {} THEN {}
                ELSE { i \in 1..Len(h) : i > Leftmost(opens) /\ h[i].form = "json" }
      [] pattern = "input" -> { i \in 1..Len(h) : h[i].form = "input" }
      [] OTHER -> { i \in 1..Len(h) : h[i].form \in {"json", "json_sp"} }

\* match.group(1) of re.search, None when there is no match.
SearchGroup(pattern, h) ==
    IF CaptureSites(pattern, h) = {} THEN None
    ELSE h[Leftmost(CaptureSites(pattern, h))].val

\* A plausible slip: len(token) >= 10.
TokenPlausible_AtLeast(t) == Len(t) >= 10

\* if len(token) > 10
TokenPlausible(t) == Len(t) > 10

\* The for loop of final's _extract_csrf from pattern k on.
RECURSIVE ExtractFrom(_, _)
ExtractFrom(k, h) ==
    IF k > Len(Patterns) THEN None
    ELSE LET g == SearchGroup(Patterns[k], h)
         IN  IF g # None /\ TokenPlausible(g) THEN g ELSE ExtractFrom(k + 1, h)

\* _extract_csrf of kroger_checker_final.py.
ExtractCsrfFinal(h) == ExtractFrom(1, h)

\* _extract_csrf of kroger_checker_strict_proxy.py: the text between the
\* first '_csrf":"' and the next quote, else the sentinel.
ExtractCsrfStrict(h) ==
    LET marks == { i \in 1..Len(h) : h[i].form = "payload" }
    IN  IF marks = {} THEN "dummy_csrf_token" ELSE h[Leftmost(marks)].val

\* A checker of either file about to call _extract_csrf on a page.
InitCsrf ==
    /\ variant \in Variants
    /\ html \in Pages
    /\ csrf = None
    /\ pc = "csrf_call"
    /\ use_proxy = FALSE
    /\ credentials = <<>>
    /\ proxy = None
    /\ sessionProxies = None
    /\ health = "none"
    /\ rot = NoRot
    /\ idx = 0
    /\ attempt = 0
    /\ token = None
    /\ trail = <<>>
    /\ results = <<>>
    /\ valid_creds = <<>>
    /\ invalid_creds = <<>>
    /\ returned = None
    /\ absorbed = FALSE
    /\ is_valid = FALSE
    /\ driver = None
    /\ last_rotation = "none"
    /\ cookies = "none"
    /\ MainIdle
    /\ InboxIdle

\* csrf_token = self._extract_csrf(login_page.text)
ExtractCsrfCall ==
    /\ pc = "csrf_call"
    /\ csrf' = IF variant = "final" THEN ExtractCsrfFinal(html)
               ELSE ExtractCsrfStrict(html)
    /\ pc' = "csrf_done"
    /\ UNCHANGED <<variant, use_proxy, credentials, proxy, sessionProxies,
                   health, rot, idx, attempt, token, trail, results,
                   valid_creds, invalid_creds, returned, absorbed, is_valid,
                   driver, last_rotation, html,
                   cookies, mainVars,
                   inboxVars>>

NextCsrf == ExtractCsrfCall

SpecCsrf == InitCsrf /\ [][NextCsrf]_vars

(***************************************************************************)
(* main() of kroger_checker_strict_proxy.py and kroger_checker_final.py:   *)
(* the two prompts, the constructor, then one check_single or one          *)
(* check_bulk inside try/finally.                                          *)
(***************************************************************************)
\* The menu answers: '1', '2', anything else.
Choices == {"1", "2", "other"}

\* with open(file_path) as f: credentials = json.load(f): the file cannot be
\* opened, its text is no JSON, or it holds a list of entries.
FileOutcomes == {"missing", "malformed", "ok"}

\* The checker's variables main() leaves to the checker.
checkerVars == <<variant, use_proxy, credentials, pc, proxy, sessionProxies,
                 health, rot, idx, attempt, token, trail, results,
                 valid_creds, invalid_creds, returned, absorbed, is_valid,
                 driver, last_rotation, html, csrf, cookies>>

\* main() after the prompts, about to construct the checker.  The list is
\* the pair typed in for choice '1' and the content of the file for '2'.
InitMain ==
    /\ variant \in Variants
    /\ use_proxy \in BOOLEAN
    /\ choice \in Choices
    /\ file \in (IF choice = "2" THEN FileOutcomes ELSE {None})
    /\ credentials \in (IF choice = "1" THEN { <<p>> : p \in Pairs }
                        ELSE IF file = "ok" THEN CredLists
                        ELSE { <<>> })
    /\ main_pc = "construct"
    /\ InboxIdle
    /\ saved = NoFiles
    /\ diagnostics = 0
    /\ closed = FALSE
    /\ pc = "ctor"
    /\ proxy = None
    /\ sessionProxies = None
    /\ health = "none"
    /\ rot = NoRot
    /\ idx = 0
    /\ attempt = 0
    /\ token = None
    /\ trail = <<>>
    /\ results = <<>>
    /\ valid_creds = <<>>
    /\ invalid_creds = <<>>
    /\ returned = None
    /\ absorbed = FALSE
    /\ is_valid = FALSE
    /\ driver = None
    /\ last_rotation = "none"
    /\ html = None
    /\ csrf = None
    /\ cookies = "none"

\* checker = KrogerChecker(use_proxy=use_proxy)
MainConstruct ==
    /\ main_pc = "construct"
    /\ Construct \/ RotateProxy \/ ConstructResume

\* A plausible slip: the failure to load the file is swallowed and the batch
\* runs on what was loaded, nothing.
MainAfterLoad_Unchecked(f) == "batch"

\* The inner try: a file that cannot be opened or parsed raises before
\* check_bulk is called, and except Exception logs it.
MainAfterLoad(f) == IF f = "ok" THEN "batch" ELSE "failed"

\* if choice == '1': ... elif choice == '2': ... else: print("Invalid choice")
MainDispatch ==
    /\ main_pc = "construct"
    /\ pc = "bulk"
    /\ CASE choice = "1" ->
              /\ main_pc' = "single"
              /\ UNCHANGED <<diagnostics, closed>>
         [] choice = "2" /\ MainAfterLoad(file) = "batch" ->
              /\ main_pc' = "batch"
              /\ UNCHANGED <<diagnostics, closed>>
         [] choice = "2" /\ MainAfterLoad(file) # "batch" ->
              \* logger.error(...), then finally: checker.close()
              /\ main_pc' = "exit"
              /\ diagnostics' = diagnostics + 1
              /\ closed' = TRUE
         [] OTHER ->
              /\ main_pc' = "exit"
              /\ closed' = TRUE
              /\ UNCHANGED diagnostics
    /\ UNCHANGED <<choice, file, saved>>
    /\ UNCHANGED checkerVars
    /\ UNCHANGED inboxVars

\* result = checker.check_single(email, password)
MainRunSingle ==
    /\ main_pc = "single"
    /\ \/ BulkTake
       \/ GetLoginPage
       \/ PostLogin
       \/ RotateProxy
       \/ RateLimitResume
       \/ ExceptionResume
       \/ FinishPair

\* print(json.dumps(result, indent=2)), then finally: checker.close()
MainSingleDone ==
    /\ main_pc = "single"
    /\ pc = "pace"
    /\ main_pc' = "exit"
    /\ closed' = TRUE
    /\ UNCHANGED <<choice, file, saved, diagnostics>>
    /\ UNCHANGED checkerVars
    /\ UNCHANGED inboxVars

\* results = checker.check_bulk(credentials)
MainRunBatch ==
    /\ main_pc = "batch"
    /\ \/ BulkTake
       \/ GetLoginPage
       \/ PostLogin
       \/ RotateProxy
       \/ RateLimitResume
       \/ ExceptionResume
       \/ FinishPair
       \/ PaceRotate
       \/ PaceSleep
       \/ PaceResume
       \/ BulkReturn

\* save_results: json.dump of the two lists.
SaveResults ==
    [written |-> TRUE, valid |-> valid_creds, invalid |-> invalid_creds]

\* The summary, checker.save_results(), then finally: checker.close()
MainBatchDone ==
    /\ main_pc = "batch"
    /\ pc = "returned"
    /\ saved' = SaveResults
    /\ main_pc' = "exit"
    /\ closed' = TRUE
    /\ UNCHANGED <<choice, file, diagnostics>>
    /\ UNCHANGED checkerVars
    /\ UNCHANGED inboxVars

\* The batch is cancelled from outside between two pairs, which for this
\* program is a KeyboardInterrupt raised in check_bulk's pacing step: neither
\* check_bulk nor main's except Exception catches it, so check_bulk's local
\* list is dropped, the finally clause closes the checker and main() ends.
MainInterrupt ==
    /\ main_pc = "batch"
    /\ pc = "pace"
    /\ pc' = "raised"
    /\ main_pc' = "interrupted"
    /\ closed' = TRUE
    /\ UNCHANGED <<choice, file, saved, diagnostics>>
    /\ UNCHANGED <<variant, use_proxy, credentials, proxy, sessionProxies,
                   health, rot, idx, attempt, token, trail, results,
                   valid_creds, invalid_creds, returned, absorbed, is_valid,
                   driver, last_rotation, html, csrf, cookies>>
    /\ UNCHANGED inboxVars

NextMain ==
    \/ MainConstruct
    \/ MainDispatch
    \/ MainRunSingle
    \/ MainSingleDone
    \/ MainRunBatch
    \/ MainBatchDone
    \/ MainInterrupt

SpecMain == InitMain /\ [][NextMain]_vars

(***************************************************************************)
(* Vocabulary of the properties: an iteration of the retry loop as the     *)
(* wire saw it.                                                            *)
(***************************************************************************)
\* The login POST was answered (no exception) with this iteration's status.
Answered(r) == r.posted /\ r.exc = None

\* Accepted: status 200 and a JSON object carrying a non-empty token.
Accepted(r) == Answered(r) /\ r.status = 200 /\ r.body = "obj_token"

\* Rejected: a well-formed status-200 response without a success token.
Rejected(r) ==
    Answered(r) /\ r.status = 200 /\ r.body \in {"obj_no_token", "obj_empty_token"}

\* RateLimited: status 403 or 429.
RateLimited(r) == Answered(r) /\ r.status \in {403, 429}

\* NetworkError: the login page GET or the login POST raised a
\* RequestException.
NetworkError(r) == r.page = RequestException \/ (r.posted /\ r.exc = RequestException)

\* ParseError: a status-200 body that does not parse.
ParseError(r) == Answered(r) /\ r.status = 200 /\ r.body \in {"malformed", "empty"}

\* Another status than 200, 403 and 429.
OtherStatus(r) == Answered(r) /\ r.status \notin {200, 403, 429}

\* Transient: a network error, another status, or a body that does not parse.
Transient(r) == NetworkError(r) \/ ParseError(r) \/ OtherStatus(r)

\* Number of login POSTs sent for the current pair.
Posts(t) == Cardinality({ i \in 1..Len(t) : t[i].posted })

\* check_single has filed the current pair's result, and check_bulk has not
\* moved on yet.
PairDone == pc = "pace"

\* The result of the pair that is done.
CurResult == results[Len(results)]

(***************************************************************************)
(* C1.  check_bulk returns a list as long as its input whose i-th result   *)
(* carries the email and the password of the i-th input entry, whatever    *)
(* the outcomes of the pairs were.                                         *)
(***************************************************************************)
C1_OneResultPerPairInOrder ==
    /\ Len(results) <= Len(credentials)
    /\ \A i \in 1..Len(results) :
        /\ results[i].email = credentials[i].email
        /\ results[i].password = credentials[i].password
    /\ pc = "returned" =>
        /\ returned # None
        /\ Len(returned) = Len(credentials)
        /\ \A i \in 1..Len(credentials) :
            /\ returned[i].email = credentials[i].email
            /\ returned[i].password = credentials[i].password

\* check_bulk has returned two results for two different entries, one valid
\* and one not.
C1_Witness ==
    /\ pc = "returned"
    /\ Len(returned) = 2
    /\ returned[1].email # returned[2].email
    /\ returned[1].valid # returned[2].valid

(***************************************************************************)
(* C2.  No error of a pair leaves check_bulk as an exception: whatever the *)
(* network does, check_bulk goes on until it returns one result per input  *)
(* entry, and a pair that ended in an exception is filed with valid=False. *)
(***************************************************************************)
C2_NoExceptionEscapes ==
    /\ pc # "raised"
    /\ pc # "returned" => ENABLED Next
    /\ pc = "returned" => Len(returned) = Len(credentials)
    /\ (PairDone /\ (LastOf(trail).page \in {RequestException, OtherException}
                     \/ LastOf(trail).exc # None)) => ~CurResult.valid

\* check_bulk has returned both results after an except clause was entered.
C2_Witness ==
    /\ pc = "returned"
    /\ absorbed
    /\ Len(returned) = 2
    /\ Len(credentials) = 2

(***************************************************************************)
(* C3.  The result of check_single has valid=True iff a login POST made    *)
(* for that pair returned status 200 with a JSON object carrying a         *)
(* non-empty token.                                                        *)
(***************************************************************************)
C3_ValidIffAccepted ==
    PairDone =>
        (CurResult.valid <=> \E i \in 1..Len(trail) : Accepted(trail[i]))

\* A pair accepted at its second attempt.
C3_Witness ==
    /\ PairDone
    /\ CurResult.valid
    /\ Len(trail) = 2
    /\ Accepted(trail[2])

(***************************************************************************)
(* C4, as stated.  _get_auth_token sends at most 2 login POSTs, and once   *)
(* 2 have been sent the pair ends with valid=False.                        *)
(***************************************************************************)
C4_BoundReachedMeansInvalid ==
    /\ Posts(trail) <= 2
    /\ (PairDone /\ Posts(trail) = 2) => ~CurResult.valid

(***************************************************************************)
(* C4, amended.  _get_auth_token sends at most 2 login POSTs in at most 2  *)
(* iterations, and once 2 have been sent the pair ends with valid=False    *)
(* unless the second was Accepted, in which case it ends with valid=True.  *)
(***************************************************************************)
C4_AtMostTwoPosts ==
    /\ Posts(trail) <= 2
    /\ Len(trail) <= 2
    /\ attempt <= 2
    /\ (PairDone /\ Posts(trail) = 2) => (CurResult.valid <=> Accepted(trail[2]))

\* A pair that used both attempts and ended invalid.
C4_Witness ==
    /\ PairDone
    /\ Posts(trail) = 2
    /\ ~CurResult.valid

(***************************************************************************)
(* C5.  An Accepted login attempt ends the pair at once: it is the pair's  *)
(* last iteration, no rotation and no cooldown follow it, the next thing   *)
(* that happens is the filing of the result, and the result has valid=True.*)
(***************************************************************************)
C5_AcceptedIsImmediateSuccess ==
    \A i \in 1..Len(trail) :
        Accepted(trail[i]) =>
            /\ i = Len(trail)
            /\ trail[i].rotated = "none"
            /\ trail[i].cooldown = 0
            /\ pc \in {"finish", "pace"}
            /\ rot = NoRot
            /\ Truthy(token)
            /\ PairDone => CurResult.valid

\* A pair accepted at its first attempt.
C5_Witness ==
    /\ PairDone
    /\ Len(trail) = 1
    /\ Accepted(trail[1])
    /\ CurResult.valid

(***************************************************************************)
(* C6, as stated.  A Rejected outcome (status 200, well formed, no success *)
(* token) yields exactly one attempt for its pair: nothing follows it, no  *)
(* retry, no rotation, no fallback, and the result has valid=False.        *)
(***************************************************************************)
C6_RejectedIsFinalAndInvalid ==
    \A i \in 1..Len(trail) :
        Rejected(trail[i]) =>
            /\ i = Len(trail)
            /\ Len(trail) = 1
            /\ pc \in {"finish", "pace", "d_finish", "d_pace"}
            /\ pc \in {"pace", "d_pace"} => ~CurResult.valid

(***************************************************************************)
(* C7.  With use_proxy=True, a login surface that answers every POST with  *)
(* 403/429 and no rotation that succeeds, the pair ends with valid=False   *)
(* after exactly one login attempt, on the first rotation failure.         *)
(***************************************************************************)
C7_StrictAbortsOnFirstRotationFailure ==
    ( /\ PairDone
      /\ use_proxy
      /\ trail # <<>>
      /\ \A i \in 1..Len(trail) : RateLimited(trail[i]) /\ trail[i].rotated # "ok" )
    => /\ Len(trail) = 1
       /\ Posts(trail) = 1
       /\ trail[1].rotated = "fail"
       /\ trail[1].strict
       /\ attempt < 2
       /\ ~CurResult.valid

\* A rate-limited pair whose strict rotation failed.
C7_Witness ==
    /\ PairDone
    /\ use_proxy
    /\ Len(trail) = 1
    /\ RateLimited(trail[1])
    /\ trail[1].rotated = "fail"
    /\ ~CurResult.valid

(***************************************************************************)
(* C8, as stated.  A pair all of whose attempts end in a Transient outcome *)
(* (network error, a status other than 200, 403 and 429, or a status-200   *)
(* body that does not parse) ends with valid=False after exactly 2 login   *)
(* attempts.                                                               *)
(***************************************************************************)
C8_TransientRetriedToBound ==
    ( /\ PairDone
      /\ trail # <<>>
      /\ \A i \in 1..Len(trail) : Transient(trail[i]) )
    => /\ Len(trail) = 2
       /\ ~CurResult.valid

(***************************************************************************)
(* C9.  After a 403 or 429 the proxy is rotated, strictly exactly when     *)
(* use_proxy is True, before any further login request for the pair; if    *)
(* the rotation fails the pair ends with valid=False, otherwise the        *)
(* attempt counter advances and the pair is attempted again while          *)
(* attempts remain.                                                        *)
(***************************************************************************)
C9_RateLimitRotatesOrAborts ==
    /\ \A i \in 1..Len(trail) : i < Len(trail) => trail[i].rotated = "ok"
    /\ \A i \in 1..Len(trail) :
        RateLimited(trail[i]) =>
            /\ trail[i].rotated # "none"
            /\ trail[i].strict = use_proxy
            /\ trail[i].rotated = "pending" =>
                /\ i = Len(trail)
                /\ pc = "rotate"
                /\ rot.ret = "ratelimit"
                /\ rot.strict = use_proxy
            /\ trail[i].rotated = "fail" =>
                /\ i = Len(trail)
                /\ pc \in {"finish", "pace"}
                /\ ~Truthy(token)
                /\ PairDone => ~CurResult.valid
            /\ trail[i].rotated = "ok" =>
                /\ attempt >= i
                /\ IF i < 2
                     THEN Len(trail) > i \/ (pc = "get" /\ attempt = i)
                     ELSE /\ pc \in {"finish", "pace"}
                          /\ ~Truthy(token)
                          /\ PairDone => ~CurResult.valid

\* A pair that was rate limited, rotated and attempted again.
C9_Witness ==
    /\ PairDone
    /\ Len(trail) = 2
    /\ RateLimited(trail[1])
    /\ trail[1].rotated = "ok"
    /\ trail[2].posted

(***************************************************************************)
(* C10, as stated.  The cooldown before the re-attempt that follows a      *)
(* RateLimited outcome is strictly longer than the cooldown before the     *)
(* re-attempt that follows a network error (time.sleep(2)).                *)
(***************************************************************************)
C10_RateLimitCooldownLonger ==
    \A i \in 1..Len(trail) :
        (RateLimited(trail[i]) /\ trail[i].rotated = "ok") =>
            trail[i].cooldown > ExceptionCooldown

(***************************************************************************)
(* Vocabulary for kroger_checker.py: a trail record is one strategy call.  *)
(***************************************************************************)
\* The record of a call of the direct-request strategy, of the browser one.
IsApi(r) == r.strategy = "api"
IsBrowser(r) == r.strategy = "selenium"

(***************************************************************************)
(* C11, as stated.  In kroger_checker.py the browser strategy is invoked   *)
(* only after a direct-request outcome that was Transient or unavailable:  *)
(* never after Accepted, Rejected or RateLimited (403/429), and after a    *)
(* RateLimited outcome the next step is a proxy rotation, not the browser. *)
(***************************************************************************)
C11_BrowserOnlyAfterTransient ==
    /\ \A i \in 1..Len(trail) :
        IsBrowser(trail[i]) =>
            /\ i = 2
            /\ IsApi(trail[1])
            /\ ~Accepted(trail[1])
            /\ ~Rejected(trail[1])
            /\ ~RateLimited(trail[1])
    /\ \A i \in 1..Len(trail) :
        (IsApi(trail[i]) /\ RateLimited(trail[i])) => pc # "d_selenium"

(***************************************************************************)
(* C12, as stated.  In kroger_checker.py the direct-request strategy       *)
(* reports success only for a status-200 response whose body carries a     *)
(* success token; a status-200 response without one never makes the pair   *)
(* valid.                                                                  *)
(***************************************************************************)
C12_ApiAcceptsOnlyWithToken ==
    /\ (pc = "d_finish" /\ IsApi(LastOf(trail))) => Accepted(LastOf(trail))
    /\ (pc = "d_pace" /\ IsApi(LastOf(trail))) =>
          (CurResult.valid <=> Accepted(LastOf(trail)))

(***************************************************************************)
(* C13.  A call of _rotate_proxy(strict) makes at most 5 acquisition       *)
(* attempts when strict and at most 3 when not.  It returns False only     *)
(* when strict and all 5 attempts failed; when not strict and all 3        *)
(* attempts failed it returns True with the proxy cleared and the session  *)
(* routed directly; every other return of True follows a health check      *)
(* that passed.                                                            *)
(***************************************************************************)
C13_RotationBoundsAndExhaustion ==
    (pc = "rotate" /\ rot.result # "pending") =>
        /\ rot.i >= 1
        /\ rot.i <= (IF rot.strict THEN 5 ELSE 3)
        /\ rot.result \in {"ok", "fail"}
        /\ rot.result = "fail" => (rot.strict /\ rot.i = 5)
        /\ rot.result = "ok" =>
             \/ health = "passed" /\ proxy \in Proxies /\ sessionProxies = proxy
             \/ /\ ~rot.strict
                /\ rot.i = 3
                /\ proxy = None
                /\ sessionProxies = None

\* A strict rotation that gave up after its fifth attempt.
C13_Witness ==
    /\ pc = "rotate"
    /\ rot.strict
    /\ rot.result = "fail"
    /\ rot.i = 5

(***************************************************************************)
(* C14, as stated.  A proxy is handed out only after its health check      *)
(* succeeded: when the latest _rotate_proxy call ended in success and left *)
(* a proxy assigned to the session, the latest health-check GET through    *)
(* the session's proxy returned status 200.                                *)
(***************************************************************************)
C14_AssignedProxyPassedHealthCheck ==
    (last_rotation = "ok" /\ sessionProxies \in Proxies) =>
        /\ proxy = sessionProxies
        /\ health = "passed"

(***************************************************************************)
(* C15, as stated.  With use_proxy=True, once a strict acquisition has     *)
(* failed (in the constructor, after a rate limit or a network error, or   *)
(* in the forced rotation between pairs), no login request is sent, nor    *)
(* the login page fetched for one, until a later acquisition succeeded.    *)
(***************************************************************************)
C15_NoLoginAfterFailedStrictAcquisition ==
    (use_proxy /\ last_rotation = "fail") => pc \notin {"get", "post"}

(***************************************************************************)
(* C16.  _rotate_proxy never raises: whatever the proxy directory and the  *)
(* health check do, every call ends by returning True or False, and its    *)
(* caller (the constructor, the retry loop, the pacing step) goes on.      *)
(***************************************************************************)
C16_RotationNeverRaises ==
    /\ last_rotation \in {"none", "ok", "fail"}
    /\ rot.result \in {"idle", "pending", "ok", "fail"}
    /\ (pc = "rotate" /\ rot.result = "pending") => ENABLED RotateProxy
    /\ (pc = "rotate" /\ rot.result # "pending") =>
          ENABLED (ConstructResume \/ RateLimitResume \/ ExceptionResume \/ PaceResume)

\* The constructor has returned after a rotation whose last health check
\* raised.
C16_Witness ==
    /\ pc = "bulk"
    /\ idx = 0
    /\ use_proxy
    /\ last_rotation = "fail"
    /\ health = "error"

(***************************************************************************)
(* C17.  _extract_csrf of kroger_checker_final.py tries the meta tag, the  *)
(* embedded script state, the hidden input and the generic JSON key in     *)
(* that order and returns the capture of the first of them whose search    *)
(* yields a value longer than 10 characters: it never returns a value of   *)
(* 10 characters or fewer, returns abcdef0123456789 for a page that is     *)
(* the meta tag with that content, and returns None when no pattern        *)
(* matches.                                                                *)
(***************************************************************************)
C17_FirstPlausibleMatchInOrder ==
    (pc = "csrf_done" /\ variant = "final") =>
        LET g(k) == SearchGroup(Patterns[k], html)
            long(k) == g(k) # None /\ Len(g(k)) > 10
        IN  /\ Patterns = <<"meta", "state", "input", "json">>
            /\ csrf # None => Len(csrf) > 10
            /\ csrf # None =>
                 \E k \in 1..4 : /\ long(k)
                                 /\ csrf = g(k)
                                 /\ \A j \in 1..(k - 1) : ~long(j)
            /\ csrf = None => \A k \in 1..4 : ~long(k)
            /\ (\A k \in 1..4 : g(k) = None) => csrf = None
            /\ html = << [form |-> "meta", val |-> "abcdef0123456789"] >>
                 => csrf = "abcdef0123456789"

\* A page whose meta tag carries a 10-character value and whose hidden
\* input carries a longer one, which is returned.
C17_Witness ==
    /\ pc = "csrf_done"
    /\ variant = "final"
    /\ Len(html) = 2
    /\ html[1].form = "input"
    /\ html[2] = [form |-> "meta", val |-> "0123456789"]
    /\ csrf = html[1].val
    /\ csrf # None

(***************************************************************************)
(* C18.  In kroger_checker_strict_proxy.py a failed token extraction never *)
(* aborts the attempt: after every login page GET that returned, the login *)
(* POST is sent, and its payload carries the extracted token when the page *)
(* holds the token marker and the sentinel dummy_csrf_token otherwise.     *)
(***************************************************************************)
C18_SentinelInsteadOfAbort ==
    variant = "strict_proxy" =>
        \A i \in 1..Len(trail) :
            trail[i].page \in {"csrf", "nocsrf"} =>
                /\ trail[i].posted \/ (i = Len(trail) /\ pc = "post")
                /\ trail[i].csrf = IF trail[i].page = "csrf"
                                     THEN "csrf_token"
                                     ELSE "dummy_csrf_token"

\* A login POST that was sent with the sentinel.
C18_Witness ==
    /\ variant = "strict_proxy"
    /\ PairDone
    /\ Len(trail) = 1
    /\ trail[1].page = "nocsrf"
    /\ trail[1].posted
    /\ trail[1].csrf = "dummy_csrf_token"

(***************************************************************************)
(* C19.  Every completed check has filed its result in exactly one sink:   *)
(* valid_creds is the results with valid=True and invalid_creds the        *)
(* results with valid=False, each in check order; a batch [a, b] with a    *)
(* Accepted and b Rejected leaves one entry in each sink.                  *)
(***************************************************************************)
C19_SinksPartitionResults ==
    LET IsValidResult(r) == r.valid
        IsInvalidResult(r) == ~r.valid
    IN  /\ valid_creds = SelectSeq(results, IsValidResult)
        /\ invalid_creds = SelectSeq(results, IsInvalidResult)
        /\ Len(valid_creds) + Len(invalid_creds) = Len(results)
        /\ pc \in {"bulk", "get", "post", "rotate", "finish"} =>
              Len(results) =
                 (IF pc = "bulk" \/ (pc = "rotate" /\ rot.ret \in {"ctor", "pace"})
                    THEN idx ELSE idx - 1)
        /\ ( /\ PairDone
             /\ idx = 2
             /\ results[1].valid
             /\ credentials[1].email = "a@x.com"
             /\ credentials[2].email = "b@x.com"
             /\ Rejected(LastOf(trail)) )
           => /\ valid_creds = << results[1] >>
              /\ invalid_creds = << results[2] >>
              /\ valid_creds[1].email = "a@x.com"
              /\ invalid_creds[1].email = "b@x.com"

\* The batch [a, b] with a accepted and b rejected, both filed.
C19_Witness ==
    /\ PairDone
    /\ idx = 2
    /\ credentials[1].email = "a@x.com"
    /\ credentials[2].email = "b@x.com"
    /\ results[1].valid
    /\ Rejected(LastOf(trail))
    /\ Len(valid_creds) = 1
    /\ Len(invalid_creds) = 1

(***************************************************************************)
(* C20.  Checking a pair against a login surface that accepts it takes     *)
(* exactly one login attempt and gives valid=True, and checking the same   *)
(* pair again against that surface does the same: the second result        *)
(* equals the first in email, password and valid.                          *)
(***************************************************************************)
C20_AcceptedRerunIsSame ==
    ( /\ PairDone
      /\ trail # <<>>
      /\ \A i \in 1..Len(trail) : Accepted(trail[i]) )
    => /\ Len(trail) = 1
       /\ Posts(trail) = 1
       /\ CurResult.valid
       /\ (idx = 2 /\ credentials[1] = credentials[2] /\ results[1].valid) =>
             /\ results[2].valid = results[1].valid
             /\ results[2].email = results[1].email
             /\ results[2].password = results[1].password
             /\ Len(valid_creds) = 2

\* The same pair checked twice and accepted twice, at the first attempt.
C20_Witness ==
    /\ PairDone
    /\ idx = 2
    /\ credentials[1] = credentials[2]
    /\ results[1].valid
    /\ results[2].valid
    /\ Len(trail) = 1
    /\ Accepted(trail[1])

(***************************************************************************)
(* C23, as stated.  The pacing step of check_bulk (the forced rotation     *)
(* when use_proxy, then the sleep) happens between consecutive pairs only: *)
(* whenever it runs another pair is still to come, so it never runs after  *)
(* the last pair.                                                          *)
(***************************************************************************)
C23_PacingOnlyBetweenPairs ==
    (pc = "pace" \/ (pc = "rotate" /\ rot.ret = "pace")) => idx < Len(credentials)

(***************************************************************************)
(* C28, as stated.  The result of a pair records every attempt made for    *)
(* it: it has an attempt sequence with one record per retry iteration, in  *)
(* attempt order.                                                          *)
(***************************************************************************)
C28_ResultRecordsAttempts ==
    PairDone =>
        /\ "attempts" \in DOMAIN CurResult
        /\ Len(CurResult.attempts) = Len(trail)

(***************************************************************************)
(* C21, as stated.  Whenever main() has completed a check_bulk run or a    *)
(* check_single run, save_results has written the two result files with    *)
(* the results accumulated so far.                                         *)
(***************************************************************************)
C21_ResultsSavedAfterEveryRun ==
    (main_pc = "exit" /\ (choice = "1" \/ (choice = "2" /\ file = "ok"))) =>
        /\ saved.written
        /\ saved.valid = valid_creds
        /\ saved.invalid = invalid_creds

(***************************************************************************)
(* C22, as stated.  A cancellation that arrives after pair k has been      *)
(* processed stops the batch before any request for pair k+1, and the      *)
(* results of pairs 1..k are returned to the caller and reach the result   *)
(* files.                                                                  *)
(***************************************************************************)
C22_CancelReturnsPartialResults ==
    main_pc = "interrupted" =>
        /\ pc \notin {"get", "post"}
        /\ returned # None
        /\ Len(returned) = idx
        /\ saved.written

(***************************************************************************)
(* C27.  When the credentials file cannot be opened or parsed, main()      *)
(* sends no login request for any pair, writes no result file, logs one    *)
(* diagnostic, and closes the checker.                                     *)
(***************************************************************************)
C27_UnreadableFileAbortsBeforeAnyPair ==
    (choice = "2" /\ file \in {"missing", "malformed"}) =>
        /\ main_pc \in {"construct", "exit"}
        /\ pc \in {"ctor", "rotate", "bulk"}
        /\ idx = 0
        /\ trail = <<>>
        /\ results = <<>>
        /\ saved = NoFiles
        /\ main_pc = "construct" => (diagnostics = 0 /\ ~closed)
        /\ main_pc = "exit" => (diagnostics = 1 /\ closed)

\* main() has ended on a file that is no JSON, with a proxy acquired by the
\* constructor.
C27_Witness ==
    /\ main_pc = "exit"
    /\ choice = "2"
    /\ file = "malformed"
    /\ use_proxy
    /\ last_rotation = "ok"
    /\ diagnostics = 1
    /\ closed

(***************************************************************************)
(* C24, as stated.  No request made while checking a pair blocks for       *)
(* ever: each is bounded by an explicit timeout, so no check is ever stuck *)
(* in a request that does not return.                                      *)
(***************************************************************************)
C24_NoRequestBlocks ==
    /\ pc \notin {"blocked", "d_blocked"}
    /\ \A i \in 1..Len(trail) : trail[i].page # "hang" /\ trail[i].exc # "hang"

(***************************************************************************)
(* C25, as stated.  The cookie state of the session is reset together with *)
(* the proxy: when a login page GET or a login POST is about to be sent,   *)
(* the jar holds no cookie received before the latest proxy rotation.      *)
(***************************************************************************)
C25_CookiesClearedOnRotation ==
    pc \in {"get", "post"} => cookies # "stale"


(***************************************************************************)
(* C26, as stated.  Nothing but the proxy assignment is carried from one   *)
(* pair to the next: when the check of a pair begins, no browser session   *)
(* opened for an earlier pair is still alive (so the pair's result cannot  *)
(* depend on what an earlier pair did in it).                              *)
(***************************************************************************)
C26_NoBrowserSessionCarriedOver ==
    (pc = "d_api" /\ trail = <<>>) => driver = None


(***************************************************************************)
(* email_checker_final.py: inboxmail checks one mailbox.  It runs the      *)
(* default checks config.json enables, then the custom checks of           *)
(* custom_checks.json, writes a line per service with hits and posts one   *)
(* summary to the webhook.  graph_email_checker.py: check_account is the   *)
(* same walk over the same configuration (lines 86-180).                   *)
(***************************************************************************)

\* Bound: the number of messages one search returns.
MaxHits == 1

\* Bound: the number of default checks config.json enables.
MaxEnabled == 1

\* The default checks in the order inboxmail runs them, by their counts key.
DefaultOrder ==
    <<"Roblox", "Steam", "Discord", "Reddit", "Epic Games", "Riot",
      "Rockstar">>

DefaultServices == { DefaultOrder[i] : i \in 1..Len(DefaultOrder) }

\* The senders a default check searches, in the order of its fetch_emails
\* calls.
Senders(service) ==
    CASE service = "Roblox" ->
             <<"accounts@roblox.com", "no-reply@roblox.com">>
      [] service = "Steam" -> <<"noreply@steampowered.com">>
      [] service = "Discord" -> <<"noreply@discord.com">>
      [] service = "Reddit" ->
             <<"noreply@reddit.com", "noreply@redditmail.com">>
      [] service = "Epic Games" -> <<"help@accts.epicgames.com">>
      [] service = "Riot" -> <<"noreply@mail.accounts.riotgames.com">>
      [] OTHER -> <<"noreply@rockstargames.com">>

\* config["default_checks"]: the set of services whose flag is true.
DefaultConfigs ==
    { c \in SUBSET DefaultServices : Cardinality(c) <= MaxEnabled }

\* The keys of custom_checks.json, in the order of the file.
CustomOrder == <<"example_check", "Example_Check", "netflix">>

CustomNames == { CustomOrder[i] : i \in 1..Len(CustomOrder) }

\* check_info["email"] of each custom check.
CustomEmail(name) ==
    CASE name = "netflix" -> "info@account.netflix.com"
      [] OTHER -> "example@example.com"

\* A check_info: the enabled key is true, false or absent.
CheckInfos(name) ==
    { [email |-> CustomEmail(name), enabled |-> "true"],
      [email |-> CustomEmail(name), enabled |-> "false"],
      [email |-> CustomEmail(name), enabled |-> "absent"] }

CustomConfigs ==
    { f \in [CustomNames -> UNION { CheckInfos(n) : n \in CustomNames }] :
        \A n \in CustomNames : f[n] \in CheckInfos(n) }

\* check_name.lower() on the names of CustomNames.
Lower(name) == IF name = "Example_Check" THEN "example_check" ELSE name

\* A plausible slip: the reserved name is compared as written.
IsReserved_CaseSensitive(name) == name = "example_check"

\* if check_name.lower() == "example_check": continue
IsReserved(name) == Lower(name) = "example_check"

\* check_info.get("enabled", False)
Enabled(info) == info.enabled = "true"

\* len() of what fetch_emails returns; it returns [] when the search fails.
Hits == 0..MaxHits

\* fetch_email_date(...).year, None when the date cannot be read.
YearOutcomes == {None, "year"}

\* counts[service] = n
SetCount(c, service, n) == (service :> n) @@ c

\* A plausible slip: the summary is sent whenever a check has run.
AnyHit_AnyCheck(c) == DOMAIN c # {}

\* any(count > 0 for count in counts.values())
AnyHit(c) == \E s \in DOMAIN c : c[s] > 0

\* The services the summary gets a field for: if count > 0.
Listed(c) == { s \in DOMAIN c : c[s] > 0 }

\* The field of one service: its count, and the estimated year for Reddit
\* and Discord when there is one.
Field(c, y, s) ==
    [name |-> s, count |-> c[s],
     year |-> IF s = "Reddit" /\ y.reddit # None THEN y.reddit
              ELSE IF s = "Discord" /\ y.discord # None THEN y.discord
              ELSE None]

\* embed["fields"]
Fields(c, y) == { Field(c, y, s) : s \in Listed(c) }

\* What the webhook answers: a status code, or requests.post raises.
WebhookOutcomes == {"204", "200", "500", "exception"}

\* if response.status_code != 204: logger.error(...); except: logger.error
WebhookLogged(w) == w # "204"

InitInbox ==
    /\ account \in {"empty", "no_at", "ok"}
    /\ default_checks \in DefaultConfigs
    /\ custom_checks \in CustomConfigs
    /\ in_pc = "start"
    /\ cursor = 0
    /\ imap = "none"
    /\ counts = <<>>
    /\ years = NoYears
    /\ searches = {}
    /\ posts = <<>>
    /\ weblog = 0
    /\ imap_attempt = 0
    /\ response = "unbound"
    /\ dropped = 0
    /\ variant = "inbox"
    /\ html = None
    /\ csrf = None
    /\ pc = "none"
    /\ use_proxy = FALSE
    /\ credentials = <<>>
    /\ proxy = None
    /\ sessionProxies = None
    /\ health = "none"
    /\ rot = NoRot
    /\ idx = 0
    /\ attempt = 0
    /\ token = None
    /\ trail = <<>>
    /\ results = <<>>
    /\ valid_creds = <<>>
    /\ invalid_creds = <<>>
    /\ returned = None
    /\ absorbed = FALSE
    /\ is_valid = FALSE
    /\ driver = None
    /\ last_rotation = "none"
    /\ cookies = "none"
    /\ MainIdle

\* for attempt in range(3)
ConnectAttempts == 3

\* What can go wrong while a connection is opened or a command is sent:
\* imaplib's IMAP4.error (its abort and readonly included), ssl.SSLError, or
\* another exception such as OSError and socket.timeout.
ConnectErrors == {"IMAP4.error", "SSLError", "OSError"}

\* A plausible slip: no clause for what is neither a protocol nor a TLS
\* error.
ConnectHandler_NoGeneric(exc) ==
    CASE exc = "IMAP4.error" -> "sleep5"
      [] exc = "SSLError" -> "sleep3"
      [] OTHER -> "raise"

\* The except clauses of one attempt: each logs and sleeps.
ConnectHandler(exc) ==
    CASE exc = "IMAP4.error" -> "sleep5"
      [] exc = "SSLError" -> "sleep3"
      [] OTHER -> "sleep3"

\* logger.error(f"Login failed: {response}") reads a local that only an
\* answered AUTHENTICATE has assigned.
LoginFailedLine(resp) ==
    IF resp = "unbound" THEN "UnboundLocalError" ELSE "logged"

\* imap.close() is a command of the SELECTED state: in any other state
\* imaplib raises IMAP4.error, and the logout() after it is not reached.
CloseRaises(state) == state # "selected"

\* if not email or not password: return; if len(email_parts) < 2: return;
\* then connect_imap is entered with attempt = 0.
InboxStart ==
    /\ in_pc = "start"
    /\ IF account = "ok"
       THEN /\ in_pc' = "c_open"
            /\ imap_attempt' = 1
       ELSE /\ in_pc' = "returned"
            /\ imap_attempt' = imap_attempt
    /\ UNCHANGED <<account, default_checks, custom_checks, cursor, imap,
                   counts, years, searches, posts, weblog, response, dropped>>
    /\ UNCHANGED <<checkerVars, mainVars>>

\* The attempt is over without a return: the next iteration, or after the
\* last one `return None`.
ConnectRetry ==
    IF imap_attempt < ConnectAttempts
    THEN /\ in_pc' = "c_open"
         /\ imap_attempt' = imap_attempt + 1
    ELSE /\ in_pc' = "c_none"
         /\ imap_attempt' = imap_attempt

\* An exception reaches the except clauses of the attempt.
ConnectFails(exc) ==
    IF ConnectHandler(exc) = "raise"
    THEN /\ in_pc' = "c_raised"
         /\ imap_attempt' = imap_attempt
    ELSE ConnectRetry

\* ssl.create_default_context(); imap = imaplib.IMAP4_SSL(..., timeout=45)
ImapOpen ==
    /\ in_pc = "c_open"
    /\ \E o \in {"connected"} \cup ConnectErrors :
          IF o = "connected"
          THEN /\ imap' = "new"
               /\ in_pc' = "c_login"
               /\ imap_attempt' = imap_attempt
          ELSE /\ imap' = imap
               /\ ConnectFails(o)
    /\ UNCHANGED <<account, default_checks, custom_checks, cursor, counts,
                   years, searches, posts, weblog, response, dropped>>
    /\ UNCHANGED <<checkerVars, mainVars>>

\* result, response = imap.login(email, password).  imaplib's login raises
\* IMAP4.error for every answer but OK, so it returns only with "OK".  An
\* exception of another kind leaves the attempt; the connection is neither
\* returned nor closed.
ImapLogin ==
    /\ in_pc = "c_login"
    /\ \E o \in {"OK"} \cup ConnectErrors :
          CASE o = "OK" ->
                 /\ imap' = "auth"
                 /\ in_pc' = "c_ok"
                 /\ UNCHANGED <<imap_attempt, dropped>>
            [] o = "IMAP4.error" ->
                 /\ in_pc' = "c_auth"
                 /\ UNCHANGED <<imap, imap_attempt, dropped>>
            [] OTHER ->
                 /\ imap' = "none"
                 /\ dropped' = dropped + 1
                 /\ ConnectFails(o)
    /\ UNCHANGED <<account, default_checks, custom_checks, cursor, counts,
                   years, searches, posts, weblog, response>>
    /\ UNCHANGED <<checkerVars, mainVars>>

\* The fallback: imap._simple_command('AUTHENTICATE', 'PLAIN', encoded).
\* OK returns the connection; another answer assigns response; an exception
\* is logged.  Then line 116 logs response and the attempt sleeps; the
\* connection is neither returned nor closed.
ImapAuthenticate ==
    /\ in_pc = "c_auth"
    /\ \E o \in {"OK", "NO", "raised"} :
          IF o = "OK"
          THEN /\ imap' = "auth"
               /\ in_pc' = "c_ok"
               /\ UNCHANGED <<imap_attempt, dropped, response>>
          ELSE /\ response' = IF o = "NO" THEN "NO" ELSE response
               /\ imap' = "none"
               /\ dropped' = dropped + 1
               /\ IF LoginFailedLine(response') = "logged"
                  THEN ConnectRetry
                  ELSE ConnectFails(LoginFailedLine(response'))
    /\ UNCHANGED <<account, default_checks, custom_checks, cursor, counts,
                   years, searches, posts, weblog>>
    /\ UNCHANGED <<checkerVars, mainVars>>

\* imap = connect_imap(...); if not imap: continue -- the list of servers has
\* one entry, so inboxmail returns.  The locals of connect_imap are gone.
InboxConnect ==
    /\ in_pc \in {"c_ok", "c_none"}
    /\ in_pc' = IF in_pc = "c_ok" THEN "select" ELSE "returned"
    /\ imap_attempt' = 0
    /\ response' = "unbound"
    /\ UNCHANGED <<account, default_checks, custom_checks, cursor, imap,
                   counts, years, searches, posts, weblog, dropped>>
    /\ UNCHANGED <<checkerVars, mainVars>>

\* status, messages = imap.select("inbox"): not OK -> continue, an exception
\* -> except; both go through finally with the connection not in the
\* SELECTED state.
InboxSelect ==
    /\ in_pc = "select"
    /\ \E st \in {"OK", "NO", "raised"} :
          IF st = "OK"
          THEN /\ in_pc' = "defaults"
               /\ cursor' = 1
               /\ imap' = "selected"
          ELSE /\ in_pc' = "finally"
               /\ cursor' = cursor
               /\ imap' = imap
    /\ UNCHANGED <<account, default_checks, custom_checks, counts,
                   years, searches, posts, weblog>>
    /\ UNCHANGED <<checkerVars, mainVars, connectVars>>

\* The year a default check estimates from its first message.
YearsAfter(y, service, hits, yr) ==
    CASE service = "Discord" /\ hits[1] > 0 -> [y EXCEPT !.discord = yr]
      [] service = "Reddit" /\ (hits[1] > 0 \/ hits[2] > 0) ->
             [y EXCEPT !.reddit = yr]
      [] OTHER -> y

Sum(hits) == IF Len(hits) = 2 THEN hits[1] + hits[2] ELSE hits[1]

\* One `if check_<service>:` block.
InboxDefaultCheck ==
    /\ in_pc = "defaults"
    /\ LET service == DefaultOrder[cursor]
           senders == Senders(service)
       IN  IF service \in default_checks
           THEN \E hits \in [1..Len(senders) -> Hits], yr \in YearOutcomes :
                   /\ counts' = SetCount(counts, service, Sum(hits))
                   /\ searches' = searches \cup
                          { [check |-> service, sender |-> senders[i]] :
                              i \in 1..Len(senders) }
                   /\ years' = YearsAfter(years, service, hits, yr)
           ELSE UNCHANGED <<counts, searches, years>>
    /\ IF cursor < Len(DefaultOrder)
       THEN /\ cursor' = cursor + 1
            /\ in_pc' = in_pc
       ELSE /\ cursor' = 1
            /\ in_pc' = "customs"
    /\ UNCHANGED <<account, default_checks, custom_checks, imap, posts,
                   weblog>>
    /\ UNCHANGED <<checkerVars, mainVars, connectVars>>

\* One iteration of `for check_name, check_info in custom_checks.items()`.
InboxCustomCheck ==
    /\ in_pc = "customs"
    /\ LET check_name == CustomOrder[cursor]
           check_info == custom_checks[check_name]
       IN  IF ~IsReserved(check_name) /\ Enabled(check_info)
           THEN \E n \in Hits :
                   /\ counts' = SetCount(counts, check_name, n)
                   /\ searches' = searches \cup
                          { [check |-> check_name,
                             sender |-> check_info.email] }
           ELSE UNCHANGED <<counts, searches>>
    /\ IF cursor < Len(CustomOrder)
       THEN /\ cursor' = cursor + 1
            /\ in_pc' = in_pc
       ELSE /\ cursor' = 0
            /\ in_pc' = "files"
    /\ UNCHANGED <<account, default_checks, custom_checks, imap, years,
                   posts, weblog>>
    /\ UNCHANGED <<checkerVars, mainVars, connectVars>>

\* os.makedirs('Valid Mails'); a line appended to 'Valid Mails/<service>.txt'
\* for each count > 0.  The files are not part of the state; the disk is
\* taken to accept the writes.
InboxWriteFiles ==
    /\ in_pc = "files"
    /\ in_pc' = "notify"
    /\ UNCHANGED <<account, default_checks, custom_checks, cursor, imap,
                   counts, years, searches, posts, weblog>>
    /\ UNCHANGED <<checkerVars, mainVars, connectVars>>

\* if any(count > 0 ...): build the embed, requests.post it once, log a
\* status other than 204 or an exception.
InboxNotify ==
    /\ in_pc = "notify"
    /\ IF AnyHit(counts)
       THEN \E w \in WebhookOutcomes :
               /\ posts' = Append(posts, [fields |-> Fields(counts, years),
                                          response |-> w])
               /\ weblog' = IF WebhookLogged(w) THEN weblog + 1 ELSE weblog
       ELSE UNCHANGED <<posts, weblog>>
    /\ in_pc' = "finally"
    /\ UNCHANGED <<account, default_checks, custom_checks, cursor, imap,
                   counts, years, searches>>
    /\ UNCHANGED <<checkerVars, mainVars, connectVars>>

\* finally: try: imap.close(); imap.logout(); except: logger.warning(...)
InboxFinally ==
    /\ in_pc = "finally"
    /\ imap' = IF CloseRaises(imap) THEN imap ELSE "closed"
    /\ in_pc' = "returned"
    /\ UNCHANGED <<account, default_checks, custom_checks, cursor, counts,
                   years, searches, posts, weblog>>
    /\ UNCHANGED <<checkerVars, mainVars, connectVars>>

NextInbox ==
    \/ InboxStart
    \/ ImapOpen
    \/ ImapLogin
    \/ ImapAuthenticate
    \/ InboxConnect
    \/ InboxSelect
    \/ InboxDefaultCheck
    \/ InboxCustomCheck
    \/ InboxWriteFiles
    \/ InboxNotify
    \/ InboxFinally

SpecInbox == InitInbox /\ [][NextInbox]_vars


\* A search has been sent for the check of this name.
Searched(name) == \E s \in searches : s.check = name

(***************************************************************************)
(* C29.  A custom check whose name is example_check in any letter case is  *)
(* skipped whatever its enabled flag says: no search is sent for it and    *)
(* counts gets no entry under its name.  Every other custom check is       *)
(* searched only if its enabled flag is true, and once the loop over the   *)
(* custom checks is through, it has been searched if its flag is true.     *)
(***************************************************************************)
C29_ReservedCheckSkipped ==
    \A n \in DOMAIN custom_checks :
        IF Lower(n) = "example_check"
        THEN ~Searched(n) /\ n \notin DOMAIN counts
        ELSE /\ Searched(n) => custom_checks[n].enabled = "true"
             /\ (in_pc \in {"files", "notify"}
                   /\ custom_checks[n].enabled = "true") =>
                    Searched(n) /\ n \in DOMAIN counts

\* The custom checks are through; both spellings of the reserved name were
\* enabled, and the enabled check netflix was searched and found mail.
C29_Witness ==
    /\ in_pc = "files"
    /\ custom_checks["example_check"].enabled = "true"
    /\ custom_checks["Example_Check"].enabled = "true"
    /\ Searched("netflix")
    /\ counts["netflix"] > 0

C31_RejectionNotRetried ==
    in_pc \in {"c_open", "c_login", "c_auth"} => response # "NO"

(***************************************************************************)
(* C37.  connect_imap makes at most 3 attempts; it returns a connection    *)
(* only in the state a LOGIN or AUTHENTICATE answered with OK leaves it    *)
(* in; it returns None only when the third attempt has failed; and no      *)
(* protocol, TLS or connection error, nor the read of the unassigned       *)
(* local response, leaves it as an exception.                              *)
(***************************************************************************)
C37_ConnectBoundedAndTotal ==
    /\ imap_attempt <= 3
    /\ dropped <= 3
    /\ in_pc # "c_raised"
    /\ in_pc = "c_ok" => imap = "auth"
    /\ in_pc = "c_none" => imap_attempt = 3 /\ imap = "none"

\* connect_imap is about to return None after three attempts in none of
\* which an AUTHENTICATE was answered, so that line 116 read the unassigned
\* response, and at least one of which had opened a connection.
C37_Witness ==
    /\ in_pc = "c_none"
    /\ imap_attempt = 3
    /\ response = "unbound"
    /\ dropped >= 1

(***************************************************************************)
(* C38, as stated.  When inboxmail has returned, every connection opened   *)
(* for the account is closed: connect_imap has let none go unclosed, and   *)
(* the one it returned has been closed and logged out.                     *)
(***************************************************************************)
C38_ConnectionsClosedOnReturn ==
    in_pc = "returned" => dropped = 0 /\ imap \in {"none", "closed"}


(***************************************************************************)
(* C32, as stated.  When a call of _rotate_proxy has returned, with True   *)
(* or with False, the session is routed through no proxy or through one    *)
(* whose health check returned 200: a candidate whose check failed or      *)
(* raised is not left in the session.                                      *)
(***************************************************************************)
C32_FailedProxyDiscarded ==
    (pc = "rotate" /\ rot.result \in {"ok", "fail"}) =>
        sessionProxies = None \/ health = "passed"

(***************************************************************************)
(* C33, as stated.  With use_proxy = False no proxy is fetched or          *)
(* assigned: self.proxy stays None, the session's proxy map stays empty,   *)
(* no call of _rotate_proxy is made, and every result has proxy None.      *)
(***************************************************************************)
C33_NoProxyUnlessEnabled ==
    ~use_proxy =>
        /\ proxy = None
        /\ sessionProxies = None
        /\ pc # "rotate"
        /\ \A i \in 1..Len(results) : results[i].proxy = None

(***************************************************************************)
(* C34, as stated.  The proxy field of a pair's result is the routing of   *)
(* the session when the pair's last login request (the login-page GET of   *)
(* its last attempt, and the POST after it) was sent.                      *)
(***************************************************************************)
C34_ResultNamesProxyUsed ==
    (PairDone /\ trail # <<>>) => CurResult.proxy = LastOf(trail).via


(***************************************************************************)
(* C35, as stated.  After every return of _rotate_proxy of                 *)
(* kroger_checker.py the recorded proxy and the routing of the session     *)
(* agree: self.proxy is None exactly when the session has no proxy, and    *)
(* otherwise both are the same proxy.                                      *)
(***************************************************************************)
C35_RecordedProxyIsRouting ==
    last_rotation # "none" => proxy = sessionProxies

(***************************************************************************)
(* C36, as stated.  A browser check runs through the proxy that is current *)
(* when it runs: when _check_with_selenium has used the browser, the       *)
(* browser is routed through self.proxy if proxies are in use and one is   *)
(* assigned, and directly otherwise.                                       *)
(***************************************************************************)
C36_BrowserFollowsRotation ==
    (pc = "d_finish" /\ trail # <<>> /\ LastOf(trail).strategy = "selenium"
        /\ LastOf(trail).browser # "init_failed") =>
        driver = (IF use_proxy /\ proxy # None THEN proxy ELSE "direct")


(***************************************************************************)
(* kroger_checker_browser.py: one KrogerChecker whose check_single is      *)
(* called for each pair of credentials in turn.  check_credentials opens a *)
(* browser, walks through the sign-in form and quits the browser in its    *)
(* finally clause.  driver is self.driver: None, "open" for a live browser *)
(* session, "quit" for a WebDriver object whose session has been quit.     *)
(* trail holds the steps of the running check_credentials call.            *)
(***************************************************************************)

\* The statements of the try block that can raise, in order: the Chrome
\* constructor and execute_script of init_browser, driver.get, the three
\* waits with their send_keys or click, and the wait for the account URL.
BrowserSteps ==
    <<"chrome", "script", "get", "email", "password", "signin", "url">>

\* How the try block is left after step `s` ended with `o`: the wait for the
\* URL returns True or, under the bare except, False; an exception anywhere
\* else goes to `except Exception`, which returns False.
BrowserLeaves(s, o) ==
    CASE s = "url" /\ o = "ok" -> [left |-> TRUE, how |-> "return", value |-> TRUE]
      [] s = "url" -> [left |-> TRUE, how |-> "return", value |-> FALSE]
      [] o = "raise" -> [left |-> TRUE, how |-> "except", value |-> FALSE]
      [] OTHER -> [left |-> FALSE, how |-> "none", value |-> FALSE]

\* self.driver = webdriver.Chrome(...): assigned only if the constructor
\* returns.
DriverAfterStep(d, s, o) == IF s = "chrome" /\ o = "ok" THEN "open" ELSE d

\* A plausible slip: the quit is the last statement of the try block
\* and runs only when no exception was caught.
QuitRuns_NoFinally(how) == how = "return"

\* finally: runs however the try block was left.
QuitRuns(how) == how \in {"return", "except"}

\* if self.driver: self.driver.quit()
DriverAfterFinally(d, how) ==
    IF QuitRuns(how) /\ d # None THEN "quit" ELSE d

\* check_single of kroger_checker_browser.py: the result has no proxy field.
MkBrowserResult(email, password, isValid) ==
    [email |-> email, password |-> password, valid |-> isValid]

\* __init__: self.driver = None and the two empty lists.
InitBrowser ==
    /\ variant = "browser"
    /\ use_proxy = FALSE
    /\ credentials \in CredLists
    /\ pc = "b_idle"
    /\ proxy = None
    /\ sessionProxies = None
    /\ health = "none"
    /\ rot = NoRot
    /\ idx = 0
    /\ attempt = 0
    /\ token = None
    /\ trail = <<>>
    /\ results = <<>>
    /\ valid_creds = <<>>
    /\ invalid_creds = <<>>
    /\ returned = None
    /\ absorbed = FALSE
    /\ is_valid = FALSE
    /\ driver = None
    /\ last_rotation = "none"
    /\ cookies = "none"
    /\ MainIdle
    /\ InboxIdle
    /\ html = None
    /\ csrf = None

\* The caller calls check_single for the next pair; check_credentials
\* enters its try block.
BrowserCall ==
    /\ pc = "b_idle"
    /\ idx < Len(credentials)
    /\ idx' = idx + 1
    /\ trail' = <<>>
    /\ pc' = "b_try"
    /\ UNCHANGED <<variant, use_proxy, credentials, proxy, sessionProxies,
                   health, rot, attempt, token, results, valid_creds,
                   invalid_creds, returned, absorbed, is_valid, driver,
                   last_rotation, html, csrf, cookies, mainVars, inboxVars>>

\* The next statement of the try block returns or raises.
BrowserStep ==
    /\ pc = "b_try"
    /\ \E o \in {"ok", "raise"} :
        LET s == BrowserSteps[Len(trail) + 1]
            l == BrowserLeaves(s, o)
        IN  /\ driver' = DriverAfterStep(driver, s, o)
            /\ trail' = Append(trail, [step |-> s, outcome |-> o,
                                       how |-> l.how])
            /\ is_valid' = IF l.left THEN l.value ELSE is_valid
            /\ pc' = IF l.left THEN "b_finally" ELSE "b_try"
    /\ UNCHANGED <<variant, use_proxy, credentials, proxy, sessionProxies,
                   health, rot, idx, attempt, token, results, valid_creds,
                   invalid_creds, returned, absorbed,
                   last_rotation, html, csrf, cookies, mainVars, inboxVars>>

\* finally: if self.driver: self.driver.quit(); then the value is returned.
BrowserFinally ==
    /\ pc = "b_finally"
    /\ driver' = DriverAfterFinally(driver, LastOf(trail).how)
    /\ pc' = "b_returned"
    /\ UNCHANGED <<variant, use_proxy, credentials, proxy, sessionProxies,
                   health, rot, idx, attempt, token, trail, results,
                   valid_creds, invalid_creds, returned, absorbed, is_valid,
                   last_rotation, html, csrf, cookies, mainVars, inboxVars>>

\* check_single builds the result, files it and returns it.
BrowserFinish ==
    /\ pc = "b_returned"
    /\ LET cred == credentials[idx]
           r == MkBrowserResult(cred.email, cred.password, is_valid)
       IN  /\ valid_creds' = ValidSinkAfter(valid_creds, r)
           /\ invalid_creds' = InvalidSinkAfter(invalid_creds, r)
           /\ results' = AppendResult(results, r)
    /\ pc' = "b_idle"
    /\ UNCHANGED <<variant, use_proxy, credentials, proxy, sessionProxies,
                   health, rot, idx, attempt, token, trail, returned,
                   absorbed, is_valid, driver,
                   last_rotation, html, csrf, cookies, mainVars, inboxVars>>

NextBrowser ==
    \/ BrowserCall
    \/ BrowserStep
    \/ BrowserFinally
    \/ BrowserFinish

SpecBrowser == InitBrowser /\ [][NextBrowser]_vars

(***************************************************************************)
(* C39.  When check_credentials of kroger_checker_browser.py has returned, *)
(* the browser session it opened has been quit, whichever statement ended  *)
(* the try block and however: no live session is left between two checks,  *)
(* and a check that is starting finds none.                                *)
(***************************************************************************)
C39_BrowserQuitBeforeReturn ==
    /\ pc \in {"b_returned", "b_idle"} => driver # "open"
    /\ (pc = "b_try" /\ trail = <<>>) => driver # "open"

\* The second pair's check has returned after its click on the sign-in
\* button raised, with the browser it had opened quit.
C39_Witness ==
    /\ pc = "b_returned"
    /\ idx = 2
    /\ driver = "quit"
    /\ LastOf(trail).step = "signin"
    /\ LastOf(trail).outcome = "raise"

====
